---- MODULE Spec2Model ----
(***************************************************************************)
(* Model of the client side of wagnertayp/enviosextra:                     *)
(*   - ipService (lib/ip-service) and the useDesktopProtection hook: the   *)
(*     desktop/IP blocking mechanism with its three ban stores, the        *)
(*     initial check and the periodic check;                               *)
(*   - VehicleInfoBox / VehicleAnalysisFlow: the simulated vehicle         *)
(*     analysis;                                                           *)
(*   - GeolocationService.validatePostalCodeFormat / getPostalCodeExample. *)
(* JavaScript runs to completion between awaits, so every action is one    *)
(* synchronous segment of a handler: from its start, or from the           *)
(* settlement of the promise it awaits, up to its next await or its end.   *)
(***************************************************************************)
EXTENDS Integers, Sequences, FiniteSets, TLC

(***************************************************************************)
(* Bounds of the model                                                     *)
(***************************************************************************)
\* concurrent uses of useDesktopProtection in one page
NumHooks == 2
\* runs of checkAccess, and interval callbacks, that are still awaiting an
\* answer when their hook has unmounted or its timer fires again
MaxDetached == 1
\* the steps of time in one period of the timers: timers set at different
\* times are out of phase by a multiple of a step
TimerPhases == 2
\* direct calls of ipService.reportDesktopAccess by other code of the page
MaxApiReports == 1
\* largest delay (ms) of a timer tick beyond its nominal period
MaxJitter == 1
\* device ids generated before the visitor gives up clearing the ban flags
MaxBypassIds == 2

(***************************************************************************)
(* Program constants                                                       *)
(***************************************************************************)
BANNED_KEY == "sp_access_blocked"
BANNED_DEVICE_KEY == "sp_device_id"
\* setInterval period of the periodic check, in ms
TickMs == 12000
\* minimum age of last_ip_check before the IP is checked again, in ms
IpCheckPeriod == 60000
\* the step of time of the model, in ms
StepMs == TickMs \div TimerPhases
\* what getItem returns for a missing key
Null == "null"
\* the same for sp_device_id, whose values are numbered from 1 in the model
NoDevice == 0

\* Strings that the code searches with String.includes are sequences of
\* fragments; a fragment is never split by the searches of the model.
Includes(s, t) ==
  \E i \in 1..(Len(s) - Len(t) + 1) : SubSeq(s, i, i + Len(t) - 1) = t

allowedDomains == { <<"replit.dev">>, <<"replit.com">>, <<"localhost">>, <<"127.0.0.1">> }
neverBanIPs == { <<"201.87.251.220">> }

\* '' : the value of response.ip || '' when the answer carries no ip
NoIp == << >>

Hooks == 1..NumHooks
\* the places of the runs that go on beside the current run of a hook
Detached == (NumHooks + 1)..(NumHooks + MaxDetached)
Runs == Hooks \cup Detached
\* caller 0 is other code of the page calling ipService directly
Api == 0
Callers == {Api} \cup Runs

(***************************************************************************)
(* The environments the page is loaded in                                  *)
(***************************************************************************)
ClientIPs == { <<"::ffff:", "201.87.251.220">>, <<"198.51.100.7">> }
Hosts ==
  { [nodeEnv |-> "production",  hostname |-> <<"entregas", ".herokuapp.com">>],
    [nodeEnv |-> "production",  hostname |-> <<"abc.", "replit.dev">>],
    [nodeEnv |-> "development", hostname |-> <<"entregas", ".herokuapp.com">>] }
\* innerWidth/screen.width pairs around the 1024 threshold
Widths == { [inner |-> 390, screen |-> 390], [inner |-> 1024, screen |-> 1280] }
\* what MobileDetect finds in the user agent, and the two media queries
Devices ==
  [ ua : {"desktop", "phone", "tablet"}, pointerFine : BOOLEAN,
    hover : BOOLEAN, width : Widths ]

\* the devices of the general specification: one per outcome of the detection
SomeDevices ==
  { [ua |-> "desktop", pointerFine |-> TRUE,  hover |-> FALSE, width |-> [inner |-> 390, screen |-> 390]],
    [ua |-> "desktop", pointerFine |-> FALSE, hover |-> TRUE,  width |-> [inner |-> 1024, screen |-> 1280]],
    [ua |-> "desktop", pointerFine |-> FALSE, hover |-> FALSE, width |-> [inner |-> 1024, screen |-> 1280]],
    [ua |-> "phone",   pointerFine |-> TRUE,  hover |-> TRUE,  width |-> [inner |-> 1024, screen |-> 1280]],
    [ua |-> "tablet",  pointerFine |-> FALSE, hover |-> FALSE, width |-> [inner |-> 390, screen |-> 390]] }

VARIABLES
  \* ---- the desktop/IP blocking mechanism
  env,            \* [host, clientIp, device]: fixed for the browser profile
  uses,           \* the components of the page that use useDesktopProtection
  framed,         \* window.top !== window.self
  page,           \* "app": the document runs; "blank": location is about:blank;
                  \* "top": the top window was navigated to the page's URL
  localStorage,   \* [BANNED_KEY, BANNED_DEVICE_KEY -> value]
  sessionStorage, \* [BANNED_KEY -> value]
  cookie,         \* set of <<name, value>>
  ipCheckAge,     \* Date.now() - parseInt(sessionStorage.last_ip_check || '0'),
                  \* saturated at AgeCap
  idGen,          \* number of different device ids generated so far
  idNow,          \* Date.now() still is what it was at the latest generateDeviceId
  srvIpBanned,    \* backend: the client's IP is banned
  srvDevBanned,   \* backend: the banned device ids
  regs,           \* POST requests in flight that no run of checkAccess awaits:
                  \* [to, who, dev, live]
  mount,          \* per hook: "unmounted", "blocked" (local ban at mount), "mounted"
  caPc,           \* per run: position of checkAccess
  timer,          \* per hook: 0, or the steps of time until the interval timer fires
  cbPc,           \* per run: position of the interval callback
  cbDev,          \* per run: deviceId read by the interval callback
  cbOf,           \* per place beside the hooks: the hook whose interval the
                  \* callback there was started by and still can clear
  cibPc,          \* per caller: position of checkIfBanned
  cibDev,         \* per caller: deviceId read by checkIfBanned
  rptPc,          \* per caller: position of reportDesktopAccess
  rptId,          \* per caller: deviceId of the report in flight
  apiReports,     \* direct calls of reportDesktopAccess so far
  last,           \* what the latest step did: [who, op, calls, sent, ret, res, local]
  \* ---- VehicleInfoBox
  licensePlate,   \* the licensePlate prop, a sequence of characters
  debounce,       \* the 800 ms timer of the lookup effect is pending
  isLoading,      \* useVehicleInfo: a lookup is in flight
  vehicleInfo,    \* useVehicleInfo: Null, "data" or "errorData" (data with an error field)
  error,          \* useVehicleInfo: Null or "error"
  flow,           \* VehicleAnalysisFlow: [mounted, analysisStage, progress, timer, data]
  \* ---- GeolocationService postal codes
  pcCountry,      \* the country argument, a sequence of characters
  pcCode,         \* the code argument, a sequence of characters
  pcOrigin,       \* "example": pcCode is getPostalCodeExample(pcCountry), possibly
                  \* with whitespace typed into it; "typed" otherwise
  pcResult,       \* "none" or what validatePostalCodeFormat returned
  \* ---- GeolocationService.detectCountryByIP
  dcPc,           \* "idle", "fetch" (a fetch or its json() is awaited), "done"
  dcAsked,        \* the URLs fetched so far, in order
  dcAnswers,      \* what the endpoints answered, in order
  dcResult,       \* how the promise settled: [kind, value]
  \* ---- GeolocationService.getNearbyMunicipalities
  nmPc,           \* "idle", "fetch", "done"
  nmAnswer,       \* what the radius API answered
  nmResult,       \* how the promise settled: [kind, value]
  \* ---- the router and AppContext
  location,       \* the path wouter shows
  cepData,        \* AppContext: Null or the confirmed postal code
  userCheckedCep, \* AppContext
  showCepModal,   \* AppContext
  funnelStorage,  \* localStorage: candidato_data, candidato_data_completo,
                  \* start_date, shopee_delivery_cep_data, user_country, user_cep
  \* ---- Municipios
  munMounted,     \* the page is mounted and its effects have run
  loading,        \* the loading view is rendered
  loadPc,         \* loadNearbyMunicipalities of the mounted page: "idle" or "awaiting"
  staleLoads,     \* requests of loadNearbyMunicipalities of unmounted pages
  nearbyMunicipalities, \* the cities the API gave: empty for the static data
  municipios,     \* the list of the page: name -> selecionado
  selectedMunicipios,   \* API data: the cities ticked
  submitting,
  showLoadingModal,
  showStartDateModal,
  selectedStartDate,    \* Null or a date
  munLast,        \* the handler of Municipios that ran in the latest step: [handler, toast]
  \* ---- Home
  homeMounted,
  timeouts,       \* pending setTimeout callbacks of handleCepConfirm
  homeLast,       \* the handler of Home that ran in the latest step
  \* ---- ipService.generateDeviceId, the hash
  components,     \* the browser attributes
  hashPc,         \* "idle" or "loop"
  hashStr,        \* str: the attributes joined
  hashI,          \* i: the characters hashed so far
  hash,           \* [hi, lo]: the number hi * 2^16 + lo
  deviceIds       \* the ids returned so far

protVars ==
  << env, uses, framed, page, localStorage, sessionStorage, cookie, ipCheckAge, idGen,
     idNow, srvIpBanned, srvDevBanned, regs, mount, caPc, timer, cbPc, cbDev,
     cbOf, cibPc, cibDev, rptPc, rptId, apiReports, last >>

vehVars == << licensePlate, debounce, isLoading, vehicleInfo, error, flow >>

pcVars == << pcCountry, pcCode, pcOrigin, pcResult >>

dcVars == << dcPc, dcAsked, dcAnswers, dcResult >>

\* the variables of the other components
nmVars == << nmPc, nmAnswer, nmResult >>

ctxVars == << location, cepData, userCheckedCep, showCepModal, funnelStorage >>

munVars ==
  << munMounted, loading, loadPc, staleLoads, nearbyMunicipalities, municipios,
     selectedMunicipios,
     submitting, showLoadingModal, showStartDateModal, selectedStartDate, munLast >>

homeVars == << homeMounted, timeouts, homeLast >>

hashVars == << components, hashPc, hashStr, hashI, hash, deviceIds >>

moreVars == << dcVars, nmVars, ctxVars, munVars, homeVars, hashVars >>

vars == << protVars, vehVars, pcVars, moreVars >>

(***************************************************************************)
(* ipService: the three ban stores                                         *)
(***************************************************************************)
Stores ==
  [localStorage |-> localStorage, sessionStorage |-> sessionStorage, cookie |-> cookie]

\* document.cookie = `name=value; ...` replaces the cookie of that name
SetCookie(ck, name, value) == { c \in ck : c[1] # name } \cup { <<name, value>> }

\* variant of markLocalBan that leaves the cookie out
markLocalBan_NoCookie(st) ==
  [ localStorage   |-> [st.localStorage EXCEPT ![BANNED_KEY] = "true"],
    sessionStorage |-> [st.sessionStorage EXCEPT ![BANNED_KEY] = "true"],
    cookie         |-> st.cookie ]

markLocalBan(st) ==
  [ localStorage   |-> [st.localStorage EXCEPT ![BANNED_KEY] = "true"],
    sessionStorage |-> [st.sessionStorage EXCEPT ![BANNED_KEY] = "true"],
    cookie         |-> SetCookie(st.cookie, BANNED_KEY, "true") ]

isLocallyBanned(st) ==
  IF st.localStorage[BANNED_KEY] = "true" THEN TRUE
  ELSE IF st.sessionStorage[BANNED_KEY] = "true" THEN TRUE
  ELSE \E c \in st.cookie : c = <<BANNED_KEY, "true">>

\* variant of redirectToBlankPage that keeps the ban for the tab session only
redirectToBlankPage_SessionOnly(st) ==
  [ localStorage   |-> st.localStorage,
    sessionStorage |-> [st.sessionStorage EXCEPT ![BANNED_KEY] = "true"],
    cookie         |-> st.cookie ]

\* the storage writes of redirectToBlankPage (the navigation is the action's page' = "blank")
redirectToBlankPage(st) ==
  [ localStorage   |-> [st.localStorage EXCEPT ![BANNED_KEY] = "true"],
    sessionStorage |-> [st.sessionStorage EXCEPT ![BANNED_KEY] = "true"],
    cookie         |-> SetCookie(st.cookie, BANNED_KEY, "true") ]

\* reportDesktopAccess up to its await: the device id and the three flags
reportDesktopAccessTry(st, deviceId) ==
  [ localStorage   |-> [st.localStorage EXCEPT ![BANNED_DEVICE_KEY] = deviceId,
                                               ![BANNED_KEY] = "true"],
    sessionStorage |-> [st.sessionStorage EXCEPT ![BANNED_KEY] = "true"],
    cookie         |-> SetCookie(st.cookie, BANNED_KEY, "true") ]

\* reportDesktopAccess, catch block
reportDesktopAccessCatch(st) ==
  [ localStorage   |-> [st.localStorage EXCEPT ![BANNED_KEY] = "true"],
    sessionStorage |-> [st.sessionStorage EXCEPT ![BANNED_KEY] = "true"],
    cookie         |-> st.cookie ]

\* the ids generateDeviceId can return, numbered in the order of their
\* Date.now() suffix: a new one, or that of the latest call when the clock
\* has not moved since
generateDeviceId == { idGen + 1 } \cup (IF idNow /\ idGen > 0 THEN { idGen } ELSE {})


(***************************************************************************)
(* The backend, as the client sees it.  A request fails ("fail": network   *)
(* error or non-OK answer) or is answered from the backend's ban tables.   *)
(***************************************************************************)
\* GET /api/check-device/:id
DeviceOutcomes(id) == { "fail", IF id \in srvDevBanned THEN "banned" ELSE "clear" }
\* GET /api/check-ip-status and GET /api/admin/check-ip-banned
IpOutcomes == { "fail", IF srvIpBanned THEN "banned" ELSE "clear" }

(***************************************************************************)
(* ipService.checkIfBanned, one segment: from position pc (with the        *)
(* outcome out of the request awaited there) to the next await or to the   *)
(* return.  deviceId is the constant read at its line 64.                  *)
(***************************************************************************)
CibResolved(st, isBanned, hasIp, marked, register) ==
  [ pc |-> "resolved", st |-> st, isBanned |-> isBanned, hasIp |-> hasIp,
    marked |-> marked, register |-> register, send |-> Null ]

CibAwait(pc, st, endpoint) ==
  [ pc |-> pc, st |-> st, isBanned |-> FALSE, hasIp |-> FALSE,
    marked |-> FALSE, register |-> FALSE, send |-> endpoint ]

\* from the settlement, with outcome out, of the request awaited at pc
checkIfBannedResume(pc, st, deviceId, out) ==
  CASE pc = "awaitDevice" ->
         IF out = "banned" THEN CibResolved(markLocalBan(st), TRUE, FALSE, TRUE, FALSE)
         ELSE CibAwait("awaitIp", st, "check-ip-status")
    [] pc = "awaitIp" ->
         IF out = "banned"
           THEN CibResolved(markLocalBan(st), TRUE, TRUE, TRUE, deviceId # NoDevice)
         ELSE IF out = "clear" THEN CibResolved(st, FALSE, TRUE, FALSE, FALSE)
         ELSE CibAwait("awaitLegacy", st, "check-ip-banned")
    [] pc = "awaitLegacy" ->
         IF out = "banned" THEN CibResolved(markLocalBan(st), TRUE, TRUE, TRUE, FALSE)
         ELSE IF out = "clear" THEN CibResolved(st, FALSE, TRUE, FALSE, FALSE)
         ELSE CibResolved(st, FALSE, FALSE, FALSE, FALSE)

\* variant of checkIfBanned that asks the server without the local check
checkIfBanned_RemoteFirst(pc, st, deviceId, out) ==
  IF pc = "start"
    THEN IF deviceId # NoDevice THEN CibAwait("awaitDevice", st, "check-device")
         ELSE CibAwait("awaitIp", st, "check-ip-status")
    ELSE checkIfBannedResume(pc, st, deviceId, out)

checkIfBanned(pc, st, deviceId, out) ==
  IF pc = "start"
    THEN IF isLocallyBanned(st) THEN CibResolved(st, TRUE, FALSE, FALSE, FALSE)
         ELSE IF deviceId # NoDevice THEN CibAwait("awaitDevice", st, "check-device")
         ELSE CibAwait("awaitIp", st, "check-ip-status")
    ELSE checkIfBannedResume(pc, st, deviceId, out)

\* the outcomes the request awaited at pc can have
CibOutcomes(pc, deviceId) ==
  IF pc = "awaitDevice" THEN DeviceOutcomes(deviceId) ELSE IpOutcomes

(***************************************************************************)
(* useDesktopProtection.checkAccess                                        *)
(***************************************************************************)
isDevelopment(host) ==
  \/ host.nodeEnv = "development"
  \/ \E domain \in allowedDomains : Includes(host.hostname, domain)

isIpExempted(clientIp) == \E allowedIp \in neverBanIPs : Includes(clientIp, allowedIp)

isConfirmedDesktop(device) ==
  LET isDesktop     == device.ua = "desktop"
      hasPointer    == device.pointerFine
      isLargeScreen == device.width.inner > 1024 \/ device.width.screen > 1024
      hasHover      == device.hover
  IN  isDesktop /\ (hasPointer \/ (isLargeScreen /\ hasHover))

\* variant of checkAccess without the test of window.top
checkAccessBegin_NoFrameCheck(host, isFramed) ==
  IF isDevelopment(host) THEN "development" ELSE "checkIfBanned"

\* checkAccess up to the call of checkIfBanned
checkAccessBegin(host, isFramed) ==
  IF isDevelopment(host) THEN "development"
  ELSE IF isFramed THEN "framed"
  ELSE "checkIfBanned"

\* variant of checkAccess that blocks a banned visitor only on a desktop
checkAccessResume_DeviceFirst(isBanned, ip, device) ==
  IF isIpExempted(ip) THEN [redirect |-> FALSE, detect |-> FALSE, report |-> FALSE]
  ELSE [ redirect |-> isBanned /\ device.ua = "desktop", detect |-> TRUE,
         report |-> ~isBanned /\ isConfirmedDesktop(device) ]

\* checkAccess after checkIfBanned resolved with {isBanned, ip}
checkAccessResume(isBanned, ip, device) ==
  IF isBanned THEN [redirect |-> TRUE, detect |-> FALSE, report |-> FALSE]
  ELSE IF isIpExempted(ip) THEN [redirect |-> FALSE, detect |-> FALSE, report |-> FALSE]
  ELSE [redirect |-> FALSE, detect |-> TRUE, report |-> isConfirmedDesktop(device)]

\* checkAccess, catch block
checkAccessCatch(st) == isLocallyBanned(st)

(***************************************************************************)
(* The interval callback of useDesktopProtection, one segment.  age is     *)
(* currentTimestamp - lastIpCheck when the segment reaches that line.      *)
(***************************************************************************)
IvEnd(st, blocked, marked) ==
  [ pc |-> "idle", st |-> st, blocked |-> blocked, marked |-> marked,
    send |-> Null, stamp |-> FALSE ]

\* from "Verificar IP a cada 5 verificacoes" on
intervalIpCheck(st, age) ==
  IF age > IpCheckPeriod
    THEN [ pc |-> "awaitIp", st |-> st, blocked |-> FALSE, marked |-> FALSE,
           send |-> "check-ip-status", stamp |-> TRUE ]
    ELSE IvEnd(st, FALSE, FALSE)

intervalCheck(pc, st, deviceId, age, out) ==
  CASE pc = "due" ->
         IF isLocallyBanned(st) THEN IvEnd(redirectToBlankPage(st), TRUE, FALSE)
         ELSE IF deviceId # NoDevice
           THEN [ pc |-> "awaitDevice", st |-> st, blocked |-> FALSE, marked |-> FALSE,
                  send |-> "check-device", stamp |-> FALSE ]
         ELSE intervalIpCheck(st, age)
    [] pc = "awaitDevice" ->
         IF out = "banned" THEN IvEnd(redirectToBlankPage(markLocalBan(st)), TRUE, TRUE)
         ELSE intervalIpCheck(st, age)
    [] pc = "awaitIp" ->
         IF out = "banned" THEN IvEnd(redirectToBlankPage(markLocalBan(st)), TRUE, TRUE)
         ELSE IvEnd(st, FALSE, FALSE)



\* variant of the effect without the return after the immediate redirect
useDesktopProtection_NoReturn(st) == [redirect |-> isLocallyBanned(st), goOn |-> TRUE]

\* the effect of useDesktopProtection up to "const checkAccess": the immediate
\* local check; goOn: the effect goes on to checkAccess() and setInterval
useDesktopProtection(st) ==
  IF isLocallyBanned(st) THEN [redirect |-> TRUE, goOn |-> FALSE]
  ELSE [redirect |-> FALSE, goOn |-> TRUE]

(***************************************************************************)
(* State after construction: a browser profile with empty stores opens     *)
(* the page; no hook is mounted yet.                                       *)
(***************************************************************************)
\* the age of the IP check saturates two ticks after the period: an age of
\* AgeCap stands for "never checked in this tab session, or long ago"
AgeCap == IpCheckPeriod + 2 * TickMs

\* last, for a step in which no code of the page ran
Quiet ==
  [ who |-> {}, op |-> "none", calls |-> {}, sent |-> {}, ret |-> "none", res |-> "none",
    local |-> FALSE ]

\* last, for a step of caller c in op (the effect of the hook up to the first
\* await, "checkAccess" after it, "intervalCheck", "registerDeviceId", or "api"
\* for other code of the page): the ipService operations (and "MobileDetect")
\* it called, the endpoints it sent requests to, the ipService operation that
\* returned last, what checkIfBanned resolved with, and whether a checkIfBanned
\* called in the step found isLocallyBanned() true
Did(c, op, calls, sent, ret, res, local) ==
  [ who |-> {c}, op |-> op, calls |-> calls, sent |-> sent, ret |-> ret, res |-> res,
    local |-> local ]

ProtStart(envs, frames, bans, hooks) ==
  /\ env \in envs
  /\ uses = hooks
  /\ framed \in frames
  /\ page = "app"
  /\ localStorage = [k \in {BANNED_KEY, BANNED_DEVICE_KEY} |->
                       IF k = BANNED_KEY THEN Null ELSE NoDevice]
  /\ sessionStorage = [k \in {BANNED_KEY} |-> Null]
  /\ cookie = {}
  /\ ipCheckAge = AgeCap
  /\ idGen = 0
  /\ idNow = FALSE
  /\ srvIpBanned \in bans
  /\ srvDevBanned = {}
  /\ regs = {}
  /\ mount = [h \in Hooks |-> "unmounted"]
  /\ caPc = [s \in Runs |-> "idle"]
  /\ timer = [h \in Hooks |-> 0]
  /\ cbPc = [s \in Runs |-> "idle"]
  /\ cbDev = [s \in Runs |-> NoDevice]
  /\ cbOf = [o \in Detached |-> {}]
  /\ cibPc = [c \in Callers |-> "idle"]
  /\ cibDev = [c \in Callers |-> NoDevice]
  /\ rptPc = [c \in Callers |-> "idle"]
  /\ rptId = [c \in Callers |-> NoDevice]
  /\ apiReports = 0
  /\ last = Quiet

ProtTypeOK ==
  /\ env \in [host : Hosts, clientIp : ClientIPs, device : Devices]
  /\ uses \subseteq Hooks
  /\ framed \in BOOLEAN
  /\ page \in {"app", "blank", "top"}
  /\ localStorage[BANNED_KEY] \in {Null, "true"}
  /\ localStorage[BANNED_DEVICE_KEY] \in 0..idGen
  /\ sessionStorage \in [{BANNED_KEY} -> {Null, "true"}]
  /\ cookie \subseteq ({BANNED_KEY} \X {"true"})
  /\ ipCheckAge \in 0..AgeCap
  /\ idGen \in 0..(MaxBypassIds + NumHooks + MaxDetached + MaxApiReports)
  /\ idNow \in BOOLEAN
  /\ srvIpBanned \in BOOLEAN
  /\ srvDevBanned \subseteq 1..idGen
  /\ regs \subseteq [to : {"register-device", "report-desktop-access"}, who : Callers,
                      dev : 1..idGen, live : BOOLEAN]
  /\ mount \in [Hooks -> {"unmounted", "blocked", "mounted"}]
  /\ caPc \in [Runs -> {"idle", "checkIfBanned", "reportDesktopAccess", "done"}]
  /\ timer \in [Hooks -> 0..TimerPhases]
  /\ cbPc \in [Runs -> {"idle", "due", "awaitDevice", "awaitIp"}]
  /\ cbOf \in [Detached -> { hs \in SUBSET Hooks : Cardinality(hs) <= 1 }]
  /\ \A o \in Detached : \A g \in cbOf[o] : cbPc[o] # "idle" /\ timer[g] > 0
  /\ cibPc \in [Callers -> {"idle", "awaitDevice", "awaitIp", "awaitLegacy"}]
  /\ rptPc \in [Callers -> {"idle", "await"}]
  /\ apiReports \in 0..MaxApiReports

(***************************************************************************)
(* Shared pieces of the actions                                            *)
(***************************************************************************)
\* the protection leaves the other components alone
ProtOnly == UNCHANGED << vehVars, pcVars, moreVars >>

Write(st) ==
  /\ localStorage' = st.localStorage
  /\ sessionStorage' = st.sessionStorage
  /\ cookie' = st.cookie

If(cond, x) == IF cond THEN {x} ELSE {}

\* POST /api/admin/register-device is sent by registerDeviceId, which caller c
\* awaits or not: the request is in flight
RegisterDevice(cond, c, deviceId) ==
  regs' = regs \cup If(cond, [to |-> "register-device", who |-> c, dev |-> deviceId,
                             live |-> TRUE])

\* POST /api/admin/report-desktop-access got through: the backend bans the
\* IP and the device
ReportReceived(ok, deviceId) ==
  /\ srvIpBanned' = (srvIpBanned \/ ok)
  /\ srvDevBanned' = IF ok THEN srvDevBanned \cup {deviceId} ELSE srvDevBanned

\* the calls and requests of a segment of checkIfBanned that ended with r
CibCalls(r) == If(r.marked, "markLocalBan") \cup If(r.register, "registerDeviceId")
CibSent(r) == If(r.send # Null, r.send) \cup If(r.register, "register-device")

\* what a step of checkAccess did before the segment of checkIfBanned it
\* contains: the calls, whether the page is being left, whether the segment is
\* the call of checkIfBanned, and isLocallyBanned() at that call
Before(calls, blank, first, local) ==
  [calls |-> calls, blank |-> blank, first |-> first, local |-> local]

\* the runs of busy take the places of free, both in ascending order
Place(s, busy, free) ==
  CHOOSE o \in free : Cardinality({ p \in free : p < o }) = Cardinality({ b \in busy : b < s })

\* f after the runs of busy were moved to their places among free, leaving
\* blank behind
Detach(f, busy, free, blank) ==
  [ s \in DOMAIN f |->
      IF s \in busy THEN blank
      ELSE IF \E b \in busy : Place(b, busy, free) = s
        THEN f[CHOOSE b \in busy : Place(b, busy, free) = s]
      ELSE f[s] ]

\* caPc of a run whose checkAccess has ended: a place beside the hooks is free again
Ended(s) == IF s \in Hooks THEN "done" ELSE "idle"

(***************************************************************************)
(* checkAccess of run h goes on after a segment of its checkIfBanned       *)
(* call ended with r.  Sets the stores, page, caPc, cibPc, rptPc, rptId,   *)
(* idGen, idNow, regs and last; op is the operation the segment is part of.*)
(***************************************************************************)
CheckAccessGoesOn(h, op, r, deviceId, pre) ==
  IF r.pc # "resolved"
    THEN /\ Write(r.st)
         /\ cibPc' = [cibPc EXCEPT ![h] = r.pc]
         /\ cibDev' = [cibDev EXCEPT ![h] = deviceId]
         /\ caPc' = [caPc EXCEPT ![h] = "checkIfBanned"]
         /\ page' = IF pre.blank THEN "blank" ELSE page
         /\ last' = Did(h, op, pre.calls \cup If(pre.first, "checkIfBanned"), CibSent(r),
                        "none", "none", pre.local)
         /\ UNCHANGED << rptPc, rptId, idGen, idNow, regs >>
    ELSE LET a == checkAccessResume(r.isBanned,
                                    IF r.hasIp THEN env.clientIp ELSE NoIp,
                                    env.device)
             res == IF r.isBanned THEN "banned" ELSE "clear"
             called == pre.calls \cup If(pre.first, "checkIfBanned") \cup CibCalls(r)
                         \cup If(a.redirect, "redirectToBlankPage")
                         \cup If(a.detect, "MobileDetect")
                         \cup If(a.report, "reportDesktopAccess")
             sent == CibSent(r) \cup If(a.report, "report-desktop-access")
         IN  /\ cibPc' = [cibPc EXCEPT ![h] = "idle"]
             /\ cibDev' = [cibDev EXCEPT ![h] = NoDevice]
             /\ RegisterDevice(r.register, h, deviceId)
             /\ page' = IF pre.blank \/ a.redirect THEN "blank" ELSE page
             /\ IF a.redirect
                  THEN /\ Write(redirectToBlankPage(r.st))
                       /\ caPc' = [caPc EXCEPT ![h] = Ended(h)]
                       /\ last' = Did(h, op, called, sent, "redirectToBlankPage", res,
                                      pre.local)
                       /\ UNCHANGED << rptPc, rptId, idGen, idNow >>
                  ELSE IF a.report
                  THEN \E newId \in generateDeviceId :
                         /\ Write(reportDesktopAccessTry(r.st, newId))
                         /\ idGen' = newId
                         /\ idNow' = TRUE
                         /\ rptPc' = [rptPc EXCEPT ![h] = "await"]
                         /\ rptId' = [rptId EXCEPT ![h] = newId]
                         /\ caPc' = [caPc EXCEPT ![h] = "reportDesktopAccess"]
                         /\ last' = Did(h, op, called, sent, "checkIfBanned", res, pre.local)
                  ELSE /\ Write(r.st)
                       /\ caPc' = [caPc EXCEPT ![h] = Ended(h)]
                       /\ last' = Did(h, op, called, sent, "checkIfBanned", res, pre.local)
                       /\ UNCHANGED << rptPc, rptId, idGen, idNow >>

(***************************************************************************)
(* useDesktopProtection: the effect runs when the component mounts         *)
(***************************************************************************)
Mount(h) ==
  /\ page = "app"
  /\ h \in uses
  /\ mount[h] = "unmounted"
  /\ UNCHANGED << env, uses, framed, ipCheckAge, srvIpBanned, srvDevBanned, cbPc, cbDev,
                  cbOf, apiReports >>
  /\ ProtOnly
  /\ LET u     == useDesktopProtection(Stores)
         st0   == IF u.redirect THEN redirectToBlankPage(Stores) ELSE Stores
         done0 == If(u.redirect, "redirectToBlankPage")
         ret0  == IF u.redirect THEN "redirectToBlankPage" ELSE "none"
         page0 == IF u.redirect THEN "blank" ELSE page
     IN
     /\ mount' = [mount EXCEPT ![h] = IF u.redirect THEN "blocked" ELSE "mounted"]
     /\ timer' = [timer EXCEPT ![h] = IF u.goOn THEN TimerPhases ELSE 0]
     /\ IF ~u.goOn
          THEN \* "Interrompe toda a execucao"
               /\ Write(st0)
               /\ page' = page0
               /\ caPc' = [caPc EXCEPT ![h] = "idle"]
               /\ last' = Did(h, "effect", done0, {}, ret0, "none", FALSE)
               /\ UNCHANGED << idGen, idNow, regs, cibPc, cibDev, rptPc, rptId >>
          ELSE LET begin == checkAccessBegin(env.host, framed)
               IN  CASE begin = "development" ->
                          /\ Write(st0)
                          /\ page' = page0
                          /\ caPc' = [caPc EXCEPT ![h] = "done"]
                          /\ last' = Did(h, "effect", done0, {}, ret0, "none", FALSE)
                          /\ UNCHANGED << idGen, idNow, regs, cibPc, cibDev, rptPc, rptId >>
                      [] begin = "framed" ->
                          \* window.top.location.href = ...: the navigation of the
                          \* top window is carried out or refused with an exception
                          \E topOk \in BOOLEAN :
                            /\ caPc' = [caPc EXCEPT ![h] = "done"]
                            /\ UNCHANGED << idGen, idNow, regs, cibPc, cibDev,
                                            rptPc, rptId >>
                            /\ IF topOk
                                 THEN /\ Write(st0)
                                      /\ page' = IF u.redirect THEN "blank" ELSE "top"
                                      /\ last' = Did(h, "effect", done0, {}, ret0, "none",
                                                     FALSE)
                                 ELSE IF checkAccessCatch(st0)
                                 THEN /\ Write(redirectToBlankPage(st0))
                                      /\ page' = "blank"
                                      /\ last' = Did(h, "effect", {"redirectToBlankPage"}, {},
                                                     "redirectToBlankPage", "none", FALSE)
                                 ELSE /\ Write(st0)
                                      /\ page' = page0
                                      /\ last' = Did(h, "effect", done0, {}, ret0, "none",
                                                     FALSE)
                      [] begin = "checkIfBanned" ->
                          LET deviceId == st0.localStorage[BANNED_DEVICE_KEY]
                          IN  CheckAccessGoesOn(h, "effect",
                                   checkIfBanned("start", st0, deviceId, "fail"),
                                   deviceId,
                                   Before(done0, u.redirect, TRUE, isLocallyBanned(st0)))

\* the request awaited by checkIfBanned, called by checkAccess of run h,
\* settles with outcome out
CheckAccessAnswered(h, out) ==
  /\ page = "app"
  /\ caPc[h] = "checkIfBanned"
  /\ cibPc[h] # "idle"
  /\ out \in CibOutcomes(cibPc[h], cibDev[h])
  /\ CheckAccessGoesOn(h, "checkAccess", checkIfBanned(cibPc[h], Stores, cibDev[h], out),
                       cibDev[h], Before({}, FALSE, FALSE, FALSE))
  /\ UNCHANGED << env, uses, framed, ipCheckAge, srvIpBanned, srvDevBanned, mount, timer,
                  cbPc, cbDev, cbOf, apiReports >>
  /\ ProtOnly

CheckAccessAnswer(h) == \E out \in {"fail", "banned", "clear"} : CheckAccessAnswered(h, out)

\* the request awaited by reportDesktopAccess, called by checkAccess of run h,
\* settles; checkAccess then redirects
CheckAccessReported(h) ==
  /\ page = "app"
  /\ caPc[h] = "reportDesktopAccess"
  /\ rptPc[h] = "await"
  /\ \E ok \in BOOLEAN :
       /\ ReportReceived(ok, rptId[h])
       /\ Write(redirectToBlankPage(IF ok THEN Stores ELSE reportDesktopAccessCatch(Stores)))
  /\ page' = "blank"
  /\ rptPc' = [rptPc EXCEPT ![h] = "idle"]
  /\ rptId' = [rptId EXCEPT ![h] = NoDevice]
  /\ caPc' = [caPc EXCEPT ![h] = Ended(h)]
  /\ last' = Did(h, "checkAccess", {"redirectToBlankPage"}, {}, "redirectToBlankPage",
                 "none", FALSE)
  /\ UNCHANGED << env, uses, framed, ipCheckAge, idGen, idNow, regs, mount, timer, cbPc,
                  cbDev, cbOf, cibPc, cibDev, apiReports >>
  /\ ProtOnly

\* the runs of checkAccess, and the interval callbacks, that await an answer
AwaitingAccess == { s \in Runs : caPc[s] \in {"checkIfBanned", "reportDesktopAccess"} }
AwaitingInterval == { s \in Runs : cbPc[s] \in {"awaitDevice", "awaitIp"} }
\* the places beside the hooks that are free
FreeAccess == { o \in Detached : caPc[o] = "idle" }
FreeInterval == { o \in Detached : cbPc[o] = "idle" }

\* cleanup of the effect: clearInterval(intervalCheck).  What the effect
\* started and still awaits an answer goes on beside the hook.
Unmount(h) ==
  /\ page = "app"
  /\ mount[h] = "mounted"
  /\ mount' = [mount EXCEPT ![h] = "unmounted"]
  /\ timer' = [timer EXCEPT ![h] = 0]
  /\ LET access   == {h} \cap AwaitingAccess
         interval == {h} \cap AwaitingInterval
     IN  /\ Cardinality(access) <= Cardinality(FreeAccess)
         /\ Cardinality(interval) <= Cardinality(FreeInterval)
         /\ caPc' = [Detach(caPc, access, FreeAccess, "idle") EXCEPT ![h] = "idle"]
         /\ cibPc' = Detach(cibPc, access, FreeAccess, "idle")
         /\ cibDev' = Detach(cibDev, access, FreeAccess, NoDevice)
         /\ rptPc' = Detach(rptPc, access, FreeAccess, "idle")
         /\ rptId' = Detach(rptId, access, FreeAccess, NoDevice)
         /\ cbPc' = [Detach(cbPc, interval, FreeInterval, "idle") EXCEPT ![h] = "idle"]
         /\ cbDev' = Detach(cbDev, interval, FreeInterval, NoDevice)
  /\ cbOf' = [o \in Detached |-> cbOf[o] \ {h}]
  /\ last' = Quiet
  /\ UNCHANGED << env, uses, framed, page, localStorage, sessionStorage, cookie, ipCheckAge,
                  idGen, idNow, srvIpBanned, srvDevBanned, regs, apiReports >>
  /\ ProtOnly

(***************************************************************************)
(* The periodic check                                                      *)
(***************************************************************************)
Min(a, b) == IF a < b THEN a ELSE b

\* StepMs go by: the timers that reach their period fire, whether or not an
\* earlier callback of theirs still awaits an answer (it goes on beside the
\* hook, with the interval of the hook in its closure).  The steps since the
\* last IP check come late by at most MaxJitter
\* ms in total.
Tick ==
  /\ page = "app"
  /\ \A s \in Runs : cbPc[s] # "due"
  /\ \E jitter \in 0..MaxJitter :
       /\ (ipCheckAge % StepMs) + jitter <= MaxJitter
       /\ ipCheckAge' = Min(ipCheckAge + StepMs + jitter, AgeCap)
  /\ LET fired    == { h \in Hooks : timer[h] = 1 }
         interval == fired \cap AwaitingInterval
     IN  /\ Cardinality(interval) <= Cardinality(FreeInterval)
         /\ timer' = [h \in Hooks |-> IF timer[h] = 0 THEN 0
                                      ELSE IF timer[h] = 1 THEN TimerPhases
                                      ELSE timer[h] - 1]
         /\ cbPc' = [s \in Runs |-> IF s \in fired THEN "due"
                                    ELSE Detach(cbPc, interval, FreeInterval, "idle")[s]]
         /\ cbDev' = Detach(cbDev, interval, FreeInterval, NoDevice)
         /\ cbOf' = [o \in Detached |->
                       IF \E b \in interval : Place(b, interval, FreeInterval) = o
                         THEN { b \in interval : Place(b, interval, FreeInterval) = o }
                         ELSE cbOf[o]]
  /\ idNow' = FALSE
  /\ last' = Quiet
  /\ UNCHANGED << env, uses, framed, page, localStorage, sessionStorage, cookie, idGen,
                  srvIpBanned, srvDevBanned, regs, mount, caPc,
                  cibPc, cibDev, rptPc, rptId, apiReports >>
  /\ ProtOnly

\* the intervals that clearInterval(intervalCheck) in the callback of run s
\* clears: the one of its hook, or, for a callback that a later firing
\* overtook, the one it was started by as long as the effect's cleanup has
\* not cleared it
intervalCheckOf(s) == IF s \in Hooks THEN {s} ELSE cbOf[s]

\* a segment of the interval callback of run h ended with r.  clearInterval
\* is called only in a segment that redirects.
IntervalGoesOn(h, r, deviceId) ==
  /\ Write(r.st)
  /\ cbDev' = [cbDev EXCEPT ![h] = IF r.pc = "idle" THEN NoDevice ELSE deviceId]
  /\ page' = IF r.blocked THEN "blank" ELSE page
  /\ timer' = [g \in Hooks |-> IF r.blocked /\ g \in intervalCheckOf(h) THEN 0 ELSE timer[g]]
  /\ cbOf' = [o \in Detached |->
                IF (o = h /\ r.pc = "idle") \/ (r.blocked /\ cbOf[o] \subseteq intervalCheckOf(h))
                  THEN {} ELSE cbOf[o]]
  /\ cbPc' = [cbPc EXCEPT ![h] = r.pc]
  /\ ipCheckAge' = IF r.stamp THEN 0 ELSE ipCheckAge
  /\ last' = Did(h, "intervalCheck",
                 If(r.marked, "markLocalBan") \cup If(r.blocked, "redirectToBlankPage"),
                 If(r.send # Null, r.send),
                 IF r.blocked THEN "redirectToBlankPage" ELSE "none", "none", FALSE)
  /\ UNCHANGED << env, uses, framed, idGen, idNow, srvIpBanned, srvDevBanned, regs, mount,
                  caPc, cibPc, cibDev, rptPc, rptId, apiReports >>
  /\ ProtOnly

\* the interval callback of h starts
IntervalCheck(h) ==
  /\ page = "app"
  /\ cbPc[h] = "due"
  /\ LET deviceId == localStorage[BANNED_DEVICE_KEY]
     IN  IntervalGoesOn(h, intervalCheck("due", Stores, deviceId, ipCheckAge, "fail"),
                        deviceId)

\* the request awaited by the interval callback of run h settles with outcome out
IntervalAnswered(h, out) ==
  /\ page = "app"
  /\ cbPc[h] \in {"awaitDevice", "awaitIp"}
  /\ out \in CibOutcomes(cbPc[h], cbDev[h])
  /\ IntervalGoesOn(h, intervalCheck(cbPc[h], Stores, cbDev[h], ipCheckAge, out), cbDev[h])

IntervalAnswer(h) == \E out \in {"fail", "banned", "clear"} : IntervalAnswered(h, out)

\* the backend answers a request in flight.  POST /api/admin/register-device:
\* it has added the device to its ban table, or the request failed, and
\* registerDeviceId returns to the document that called it.  POST
\* /api/admin/report-desktop-access of a document that is gone: it has banned
\* the IP and the device, or the request failed, and nobody hears of it.
RegisterDeviceAnswer(req) ==
  /\ req \in regs
  /\ regs' = regs \ {req}
  /\ \E ok \in BOOLEAN :
       IF req.to = "report-desktop-access"
         THEN ReportReceived(ok, req.dev)
         ELSE /\ srvDevBanned' = IF ok THEN srvDevBanned \cup {req.dev} ELSE srvDevBanned
              /\ srvIpBanned' = srvIpBanned
  /\ last' = IF req.live /\ page = "app"
               THEN Did(req.who, "registerDeviceId", {}, {}, "registerDeviceId", "none", FALSE)
               ELSE Quiet
  /\ UNCHANGED << env, uses, framed, page, localStorage, sessionStorage, cookie, ipCheckAge,
                  idGen, idNow, mount, caPc, timer, cbPc, cbDev, cbOf,
                  cibPc, cibDev, rptPc, rptId, apiReports >>
  /\ ProtOnly

\* the backend answers the POST /api/admin/report-desktop-access of caller c
\* after the document has left the page: what awaited the answer does not
\* run any more
ReportUnheard(c) ==
  /\ page # "app"
  /\ rptPc[c] = "await"
  /\ \E ok \in BOOLEAN : ReportReceived(ok, rptId[c])
  /\ rptPc' = [rptPc EXCEPT ![c] = "idle"]
  /\ rptId' = [rptId EXCEPT ![c] = NoDevice]
  /\ last' = Quiet
  /\ UNCHANGED << env, uses, framed, page, localStorage, sessionStorage, cookie, ipCheckAge,
                  idGen, idNow, regs, mount, caPc, timer, cbPc, cbDev, cbOf,
                  cibPc, cibDev, apiReports >>
  /\ ProtOnly

(***************************************************************************)
(* The visitor opens the page again: a new document, in the same tab       *)
(* session or, newSession, in a new one whose sessionStorage is empty.     *)
(***************************************************************************)
\* a new document: nothing of the previous one runs on; its POST requests
\* stay in flight, with nobody to hear the answer
NewDocument ==
  /\ page' = "app"
  /\ framed' = IF page = "top" THEN FALSE ELSE framed
  /\ mount' = [h \in Hooks |-> "unmounted"]
  /\ caPc' = [s \in Runs |-> "idle"]
  /\ timer' = [h \in Hooks |-> 0]
  /\ cbPc' = [s \in Runs |-> "idle"]
  /\ cbDev' = [s \in Runs |-> NoDevice]
  /\ cbOf' = [o \in Detached |-> {}]
  /\ cibPc' = [c \in Callers |-> "idle"]
  /\ cibDev' = [c \in Callers |-> NoDevice]
  /\ rptPc' = [c \in Callers |-> "idle"]
  /\ rptId' = [c \in Callers |-> NoDevice]
  /\ regs' = { [to |-> req.to, who |-> Api, dev |-> req.dev, live |-> FALSE] : req \in regs }
                \cup { [to |-> "report-desktop-access", who |-> Api, dev |-> rptId[c],
                         live |-> FALSE] : c \in { d \in Callers : rptPc[d] = "await" } }
  /\ idNow' = FALSE
  /\ last' = Quiet
  /\ UNCHANGED << env, uses, idGen, srvIpBanned, srvDevBanned, apiReports >>
  /\ ProtOnly

PageLoad ==
  /\ NewDocument
  /\ \E newSession \in BOOLEAN :
       /\ sessionStorage' = IF newSession THEN [k \in {BANNED_KEY} |-> Null]
                                          ELSE sessionStorage
       /\ ipCheckAge' = IF newSession THEN AgeCap ELSE ipCheckAge
  /\ UNCHANGED << localStorage, cookie >>

\* The bypass the mechanism is meant to prevent: the visitor deletes the
\* sp_access_blocked entries of the three stores (sp_device_id stays) and
\* opens the page again.
VisitorClearsBan ==
  /\ isLocallyBanned(Stores)
  /\ idGen < MaxBypassIds
  /\ NewDocument
  /\ localStorage' = [localStorage EXCEPT ![BANNED_KEY] = Null]
  /\ sessionStorage' = [sessionStorage EXCEPT ![BANNED_KEY] = Null]
  /\ cookie' = { c \in cookie : c[1] # BANNED_KEY }
  /\ UNCHANGED ipCheckAge

(***************************************************************************)
(* Other code of the page calls ipService directly                         *)
(***************************************************************************)
ApiFrame ==
  /\ UNCHANGED << env, uses, framed, ipCheckAge, mount, caPc, timer, cbPc, cbDev, cbOf >>
  /\ ProtOnly

ApiMarkLocalBan ==
  /\ page = "app"
  /\ Write(markLocalBan(Stores))
  /\ last' = Did(Api, "api", {"markLocalBan"}, {}, "markLocalBan", "none", FALSE)
  /\ ApiFrame
  /\ UNCHANGED << page, idGen, idNow, srvIpBanned, srvDevBanned, regs, cibPc, cibDev,
                  rptPc, rptId, apiReports >>

ApiRedirectToBlankPage ==
  /\ page = "app"
  /\ Write(redirectToBlankPage(Stores))
  /\ page' = "blank"
  /\ last' = Did(Api, "api", {"redirectToBlankPage"}, {}, "redirectToBlankPage", "none",
                 FALSE)
  /\ ApiFrame
  /\ UNCHANGED << idGen, idNow, srvIpBanned, srvDevBanned, regs, cibPc, cibDev,
                  rptPc, rptId, apiReports >>

\* registerDeviceId(deviceId) with the stored device id, up to its await
ApiRegisterDeviceId ==
  /\ page = "app"
  /\ localStorage[BANNED_DEVICE_KEY] # NoDevice
  /\ \A req \in regs : ~(req.live /\ req.who = Api)
  /\ RegisterDevice(TRUE, Api, localStorage[BANNED_DEVICE_KEY])
  /\ last' = Did(Api, "api", {"registerDeviceId"}, {"register-device"}, "none",
                 "none", FALSE)
  /\ ApiFrame
  /\ UNCHANGED << page, localStorage, sessionStorage, cookie, idGen, idNow, srvIpBanned,
                  srvDevBanned, cibPc, cibDev, rptPc, rptId, apiReports >>

\* a segment of a direct checkIfBanned call ended with r
ApiCheckGoesOn(r, deviceId, first, local) ==
  /\ Write(r.st)
  /\ cibPc' = [cibPc EXCEPT ![Api] = IF r.pc = "resolved" THEN "idle" ELSE r.pc]
  /\ cibDev' = [cibDev EXCEPT ![Api] = IF r.pc = "resolved" THEN NoDevice ELSE deviceId]
  /\ RegisterDevice(r.register, Api, deviceId)
  /\ last' = Did(Api, "api", If(first, "checkIfBanned") \cup CibCalls(r), CibSent(r),
                 IF r.pc = "resolved" THEN "checkIfBanned" ELSE "none",
                 IF r.pc # "resolved" THEN "none"
                 ELSE IF r.isBanned THEN "banned" ELSE "clear",
                 local)
  /\ ApiFrame
  /\ UNCHANGED << page, idGen, idNow, srvIpBanned, srvDevBanned, rptPc, rptId, apiReports >>

ApiCheckIfBanned ==
  /\ page = "app"
  /\ cibPc[Api] = "idle"
  /\ LET deviceId == localStorage[BANNED_DEVICE_KEY]
     IN  ApiCheckGoesOn(checkIfBanned("start", Stores, deviceId, "fail"), deviceId,
                        TRUE, isLocallyBanned(Stores))

ApiCheckAnswer ==
  /\ page = "app"
  /\ cibPc[Api] # "idle"
  /\ \E out \in CibOutcomes(cibPc[Api], cibDev[Api]) :
       ApiCheckGoesOn(checkIfBanned(cibPc[Api], Stores, cibDev[Api], out), cibDev[Api],
                      FALSE, FALSE)

ApiReportDesktopAccess ==
  /\ page = "app"
  /\ rptPc[Api] = "idle"
  /\ apiReports < MaxApiReports
  /\ apiReports' = apiReports + 1
  /\ \E deviceId \in generateDeviceId :
       /\ Write(reportDesktopAccessTry(Stores, deviceId))
       /\ idGen' = deviceId
       /\ rptId' = [rptId EXCEPT ![Api] = deviceId]
  /\ idNow' = TRUE
  /\ rptPc' = [rptPc EXCEPT ![Api] = "await"]
  /\ last' = Did(Api, "api", {"reportDesktopAccess"}, {"report-desktop-access"}, "none",
                 "none", FALSE)
  /\ UNCHANGED << env, uses, framed, ipCheckAge, mount, caPc, timer, cbPc, cbDev, cbOf >>
  /\ ProtOnly
  /\ UNCHANGED << page, srvIpBanned, srvDevBanned, regs, cibPc, cibDev >>

ApiReported ==
  /\ page = "app"
  /\ rptPc[Api] = "await"
  /\ \E ok \in BOOLEAN :
       /\ ReportReceived(ok, rptId[Api])
       /\ Write(IF ok THEN Stores ELSE reportDesktopAccessCatch(Stores))
  /\ rptPc' = [rptPc EXCEPT ![Api] = "idle"]
  /\ rptId' = [rptId EXCEPT ![Api] = NoDevice]
  /\ last' = Did(Api, "api", {}, {}, "reportDesktopAccess", "none", FALSE)
  /\ ApiFrame
  /\ UNCHANGED << page, idGen, idNow, regs, cibPc, cibDev, apiReports >>

\* the hooks
HookNext ==
  \/ \E h \in Hooks : Mount(h)
  \/ \E s \in Runs : CheckAccessAnswer(s)
  \/ \E s \in Runs : CheckAccessReported(s)
  \/ \E h \in Hooks : Unmount(h)
  \/ Tick
  \/ \E h \in Hooks : IntervalCheck(h)
  \/ \E s \in Runs : IntervalAnswer(s)
  \/ PageLoad

\* the hooks, in components that stay mounted while their document is open
MountedNext ==
  \/ \E h \in Hooks : Mount(h)
  \/ \E s \in Runs : CheckAccessAnswer(s)
  \/ \E s \in Runs : CheckAccessReported(s)
  \/ Tick
  \/ \E h \in Hooks : IntervalCheck(h)
  \/ \E s \in Runs : IntervalAnswer(s)
  \/ PageLoad

\* the backend answers the requests that nothing in the page waits for
BackendNext ==
  \/ \E req \in regs : RegisterDeviceAnswer(req)
  \/ \E c \in Callers : ReportUnheard(c)

ApiNext ==
  \/ ApiMarkLocalBan
  \/ ApiRedirectToBlankPage
  \/ ApiRegisterDeviceId
  \/ ApiCheckIfBanned
  \/ ApiCheckAnswer
  \/ ApiReportDesktopAccess
  \/ ApiReported

(***************************************************************************)
(* Strings are sequences of one-character strings.                         *)
(***************************************************************************)
\* the characters matched by \s and removed by trim(): WhiteSpace and
\* LineTerminator of ECMAScript.  A character without an escape is written as
\* the name of its code unit.
Whitespace ==
  { " ", "\t", "\n", "\r", "\f", "\\u000B", "\\u00A0", "\\u1680", "\\u2000", "\\u2001",
    "\\u2002", "\\u2003", "\\u2004", "\\u2005", "\\u2006", "\\u2007", "\\u2008",
    "\\u2009", "\\u200A", "\\u2028", "\\u2029", "\\u202F", "\\u205F", "\\u3000",
    "\\uFEFF" }
\* the whitespace characters that are typed or pasted into a field: the space,
\* a line feed and a no-break space
TypedWhitespace == { " ", "\n", "\\u00A0" }

RECURSIVE TrimStart(_)
TrimStart(s) == IF s = << >> \/ Head(s) \notin Whitespace THEN s ELSE TrimStart(Tail(s))

RECURSIVE TrimEnd(_)
TrimEnd(s) ==
  IF s = << >> \/ s[Len(s)] \notin Whitespace THEN s
  ELSE TrimEnd(SubSeq(s, 1, Len(s) - 1))

\* String.prototype.trim
Trim(s) == TrimEnd(TrimStart(s))

RECURSIVE StringsUpTo(_, _)
\* the strings over alphabet of at most n characters
StringsUpTo(alphabet, n) ==
  IF n = 0 THEN { << >> }
  ELSE LET shorter == StringsUpTo(alphabet, n - 1)
       IN  shorter \cup { Append(s, c) : s \in shorter, c \in alphabet }

(***************************************************************************)
(* VehicleInfoBox and VehicleAnalysisFlow                                  *)
(***************************************************************************)
\* progress is counted in tenths of a percent: the step of 2.5 and the
\* threshold of 100 of the interval callback
ProgressStep == 25
ProgressFull == 1000
\* length of the plates the parent passes
MaxPlateLen == 4

\* the plates are typed with a letter, the space and the line feed
Plates == StringsUpTo({" ", "\n", "A"}, MaxPlateLen)

\* the test of the debounced effect and of the first return of the render
plateIsShort(plate) == plate = << >> \/ Len(Trim(plate)) < 3

\* variant of the render with an error view for a failed lookup
VehicleInfoBox_ErrorView(plate, busy, info, err) ==
  IF plateIsShort(plate) THEN "prompt"
  ELSE IF busy THEN "loading"
  ELSE IF err # Null THEN "error"
  ELSE IF info # Null THEN "flow"
  ELSE "waiting"

\* what VehicleInfoBox renders: the prompt for a plate, the loading indicator,
\* VehicleAnalysisFlow, or the waiting message
VehicleInfoBox(plate, busy, info, err) ==
  IF plateIsShort(plate) THEN "prompt"
  ELSE IF busy THEN "loading"
  ELSE IF info # Null \/ err # Null THEN "flow"
  ELSE "waiting"

\* the vehicleInfo prop passed to VehicleAnalysisFlow
finalVehicleData(info, err) ==
  IF err # Null \/ info = Null \/ info = "errorData" THEN "demo" ELSE "real"

NoFlow ==
  [ mounted |-> FALSE, analysisStage |-> "analyzing", progress |-> 0, timer |-> FALSE,
    data |-> "none" ]

\* VehicleAnalysisFlow after the render of VehicleInfoBox was committed: it is
\* mounted with its initial state and its interval timer, keeps its state
\* (with the new prop), or is unmounted and its timer cleared
Commit(f, view, info, err) ==
  IF view # "flow" THEN NoFlow
  ELSE IF f.mounted THEN [f EXCEPT !.data = finalVehicleData(info, err)]
  ELSE [ mounted |-> TRUE, analysisStage |-> "analyzing", progress |-> 0, timer |-> TRUE,
         data |-> finalVehicleData(info, err) ]

\* the callback of the 100 ms interval: the updater passed to setProgress
VehicleAnalysisFlowTick(f) ==
  IF f.progress >= ProgressFull
    THEN [f EXCEPT !.analysisStage = "approved", !.timer = FALSE, !.progress = ProgressFull]
    ELSE [f EXCEPT !.progress = f.progress + ProgressStep]

VehStart ==
  /\ licensePlate = << >>
  /\ debounce = TRUE
  /\ isLoading = FALSE
  /\ vehicleInfo = Null
  /\ error = Null
  /\ flow = NoFlow

VehIdle == VehStart

VehTypeOK ==
  /\ licensePlate \in Plates
  /\ debounce \in BOOLEAN
  /\ isLoading \in BOOLEAN
  /\ vehicleInfo \in {Null, "data", "errorData"}
  /\ error \in {Null, "error"}
  /\ flow.mounted \in BOOLEAN
  /\ flow.analysisStage \in {"analyzing", "approved"}
  /\ flow.progress \in 0..ProgressFull
  /\ flow.timer \in BOOLEAN
  /\ flow.data \in {"none", "demo", "real"}

VehOnly == UNCHANGED << protVars, pcVars, moreVars >>

\* the parent passes another licensePlate: the effect clears its timer and
\* sets a new one
SetLicensePlate(plate) ==
  /\ plate \in Plates
  /\ plate # licensePlate
  /\ licensePlate' = plate
  /\ debounce' = TRUE
  /\ flow' = Commit(flow, VehicleInfoBox(plate, isLoading, vehicleInfo, error),
                    vehicleInfo, error)
  /\ UNCHANGED << isLoading, vehicleInfo, error >>
  /\ VehOnly

\* useVehicleInfo.fetchVehicleInfo: the lookup is reported as loading; what the
\* previous lookup left is kept or dropped (reset)
fetchVehicleInfo(info, err, reset) ==
  [ isLoading |-> TRUE,
    vehicleInfo |-> IF reset THEN Null ELSE info,
    error |-> IF reset THEN Null ELSE err ]

\* the 800 ms timer fires: fetchVehicleInfo(licensePlate) for a plate of three
\* characters or more
DebounceFires ==
  /\ debounce
  /\ debounce' = FALSE
  /\ IF plateIsShort(licensePlate)
       THEN UNCHANGED << isLoading, vehicleInfo, error, flow >>
       ELSE \E reset \in BOOLEAN :
              LET hook == fetchVehicleInfo(vehicleInfo, error, reset)
              IN  /\ isLoading' = hook.isLoading
                  /\ vehicleInfo' = hook.vehicleInfo
                  /\ error' = hook.error
                  /\ flow' = Commit(flow,
                                    VehicleInfoBox(licensePlate, hook.isLoading,
                                                   hook.vehicleInfo, hook.error),
                                    hook.vehicleInfo, hook.error)
  /\ UNCHANGED licensePlate
  /\ VehOnly

\* useVehicleInfo: the lookup ends with data, with data carrying an error
\* field, or with an error (a failed request, an API that is not configured)
LookupEnds(result) ==
  /\ isLoading
  /\ isLoading' = FALSE
  /\ vehicleInfo' = IF result = "error" THEN vehicleInfo ELSE result
  /\ error' = IF result = "error" THEN "error" ELSE Null
  /\ flow' = Commit(flow, VehicleInfoBox(licensePlate, FALSE, vehicleInfo', error'),
                    vehicleInfo', error')
  /\ UNCHANGED << licensePlate, debounce >>
  /\ VehOnly

\* the interval timer of VehicleAnalysisFlow fires
AnalysisTick ==
  /\ flow.mounted
  /\ flow.timer
  /\ flow' = VehicleAnalysisFlowTick(flow)
  /\ UNCHANGED << licensePlate, debounce, isLoading, vehicleInfo, error >>
  /\ VehOnly

VehNext ==
  \/ \E plate \in Plates : SetLicensePlate(plate)
  \/ DebounceFires
  \/ \E result \in {"data", "errorData", "error"} : LookupEnds(result)
  \/ AnalysisTick


(***************************************************************************)
(* String.prototype.toUpperCase                                            *)
(***************************************************************************)
\* A string is the sequence of its UTF-16 code units; a code unit outside
\* printable ASCII is written as its name, \uXXXX.
LowerCase == << "a", "b", "c", "d", "e", "f", "g", "h", "i", "j", "k", "l", "m",
                "n", "o", "p", "q", "r", "s", "t", "u", "v", "w", "x", "y", "z" >>
UpperCase == << "A", "B", "C", "D", "E", "F", "G", "H", "I", "J", "K", "L", "M",
                "N", "O", "P", "Q", "R", "S", "T", "U", "V", "W", "X", "Y", "Z" >>

\* The characters outside ASCII that toUpperCase changes, each with its
\* upper-case form: the simple upper-case mappings of the Unicode Character
\* Database and the unconditional ones of its SpecialCasing.txt, of Unicode
\* 17.0.  A character outside the Basic Multilingual Plane is the two code
\* units of its surrogate pair; a form is one to three characters.
UpperCaseForms ==
  { << <<"\\u00B5">>, <<"\\u039C">> >>, << <<"\\u00DF">>, <<"S", "S">> >>,
    << <<"\\u00E0">>, <<"\\u00C0">> >>, << <<"\\u00E1">>, <<"\\u00C1">> >>,
    << <<"\\u00E2">>, <<"\\u00C2">> >>, << <<"\\u00E3">>, <<"\\u00C3">> >>,
    << <<"\\u00E4">>, <<"\\u00C4">> >>, << <<"\\u00E5">>, <<"\\u00C5">> >>,
    << <<"\\u00E6">>, <<"\\u00C6">> >>, << <<"\\u00E7">>, <<"\\u00C7">> >>,
    << <<"\\u00E8">>, <<"\\u00C8">> >>, << <<"\\u00E9">>, <<"\\u00C9">> >>,
    << <<"\\u00EA">>, <<"\\u00CA">> >>, << <<"\\u00EB">>, <<"\\u00CB">> >>,
    << <<"\\u00EC">>, <<"\\u00CC">> >>, << <<"\\u00ED">>, <<"\\u00CD">> >>,
    << <<"\\u00EE">>, <<"\\u00CE">> >>, << <<"\\u00EF">>, <<"\\u00CF">> >>,
    << <<"\\u00F0">>, <<"\\u00D0">> >>, << <<"\\u00F1">>, <<"\\u00D1">> >>,
    << <<"\\u00F2">>, <<"\\u00D2">> >>, << <<"\\u00F3">>, <<"\\u00D3">> >>,
    << <<"\\u00F4">>, <<"\\u00D4">> >>, << <<"\\u00F5">>, <<"\\u00D5">> >>,
    << <<"\\u00F6">>, <<"\\u00D6">> >>, << <<"\\u00F8">>, <<"\\u00D8">> >>,
    << <<"\\u00F9">>, <<"\\u00D9">> >>, << <<"\\u00FA">>, <<"\\u00DA">> >>,
    << <<"\\u00FB">>, <<"\\u00DB">> >>, << <<"\\u00FC">>, <<"\\u00DC">> >>,
    << <<"\\u00FD">>, <<"\\u00DD">> >>, << <<"\\u00FE">>, <<"\\u00DE">> >>,
    << <<"\\u00FF">>, <<"\\u0178">> >>, << <<"\\u0101">>, <<"\\u0100">> >>,
    << <<"\\u0103">>, <<"\\u0102">> >>, << <<"\\u0105">>, <<"\\u0104">> >>,
    << <<"\\u0107">>, <<"\\u0106">> >>, << <<"\\u0109">>, <<"\\u0108">> >>,
    << <<"\\u010B">>, <<"\\u010A">> >>, << <<"\\u010D">>, <<"\\u010C">> >>,
    << <<"\\u010F">>, <<"\\u010E">> >>, << <<"\\u0111">>, <<"\\u0110">> >>,
    << <<"\\u0113">>, <<"\\u0112">> >>, << <<"\\u0115">>, <<"\\u0114">> >>,
    << <<"\\u0117">>, <<"\\u0116">> >>, << <<"\\u0119">>, <<"\\u0118">> >>,
    << <<"\\u011B">>, <<"\\u011A">> >>, << <<"\\u011D">>, <<"\\u011C">> >>,
    << <<"\\u011F">>, <<"\\u011E">> >>, << <<"\\u0121">>, <<"\\u0120">> >>,
    << <<"\\u0123">>, <<"\\u0122">> >>, << <<"\\u0125">>, <<"\\u0124">> >>,
    << <<"\\u0127">>, <<"\\u0126">> >>, << <<"\\u0129">>, <<"\\u0128">> >>,
    << <<"\\u012B">>, <<"\\u012A">> >>, << <<"\\u012D">>, <<"\\u012C">> >>,
    << <<"\\u012F">>, <<"\\u012E">> >>, << <<"\\u0131">>, <<"I">> >>,
    << <<"\\u0133">>, <<"\\u0132">> >>, << <<"\\u0135">>, <<"\\u0134">> >>,
    << <<"\\u0137">>, <<"\\u0136">> >>, << <<"\\u013A">>, <<"\\u0139">> >>,
    << <<"\\u013C">>, <<"\\u013B">> >>, << <<"\\u013E">>, <<"\\u013D">> >>,
    << <<"\\u0140">>, <<"\\u013F">> >>, << <<"\\u0142">>, <<"\\u0141">> >>,
    << <<"\\u0144">>, <<"\\u0143">> >>, << <<"\\u0146">>, <<"\\u0145">> >>,
    << <<"\\u0148">>, <<"\\u0147">> >>, << <<"\\u0149">>, <<"\\u02BC", "N">> >>,
    << <<"\\u014B">>, <<"\\u014A">> >>, << <<"\\u014D">>, <<"\\u014C">> >>,
    << <<"\\u014F">>, <<"\\u014E">> >>, << <<"\\u0151">>, <<"\\u0150">> >>,
    << <<"\\u0153">>, <<"\\u0152">> >>, << <<"\\u0155">>, <<"\\u0154">> >>,
    << <<"\\u0157">>, <<"\\u0156">> >>, << <<"\\u0159">>, <<"\\u0158">> >>,
    << <<"\\u015B">>, <<"\\u015A">> >>, << <<"\\u015D">>, <<"\\u015C">> >>,
    << <<"\\u015F">>, <<"\\u015E">> >>, << <<"\\u0161">>, <<"\\u0160">> >>,
    << <<"\\u0163">>, <<"\\u0162">> >>, << <<"\\u0165">>, <<"\\u0164">> >>,
    << <<"\\u0167">>, <<"\\u0166">> >>, << <<"\\u0169">>, <<"\\u0168">> >>,
    << <<"\\u016B">>, <<"\\u016A">> >>, << <<"\\u016D">>, <<"\\u016C">> >>,
    << <<"\\u016F">>, <<"\\u016E">> >>, << <<"\\u0171">>, <<"\\u0170">> >>,
    << <<"\\u0173">>, <<"\\u0172">> >>, << <<"\\u0175">>, <<"\\u0174">> >>,
    << <<"\\u0177">>, <<"\\u0176">> >>, << <<"\\u017A">>, <<"\\u0179">> >>,
    << <<"\\u017C">>, <<"\\u017B">> >>, << <<"\\u017E">>, <<"\\u017D">> >>,
    << <<"\\u017F">>, <<"S">> >>, << <<"\\u0180">>, <<"\\u0243">> >>,
    << <<"\\u0183">>, <<"\\u0182">> >>, << <<"\\u0185">>, <<"\\u0184">> >>,
    << <<"\\u0188">>, <<"\\u0187">> >>, << <<"\\u018C">>, <<"\\u018B">> >>,
    << <<"\\u0192">>, <<"\\u0191">> >>, << <<"\\u0195">>, <<"\\u01F6">> >>,
    << <<"\\u0199">>, <<"\\u0198">> >>, << <<"\\u019A">>, <<"\\u023D">> >>,
    << <<"\\u019B">>, <<"\\uA7DC">> >>, << <<"\\u019E">>, <<"\\u0220">> >>,
    << <<"\\u01A1">>, <<"\\u01A0">> >>, << <<"\\u01A3">>, <<"\\u01A2">> >>,
    << <<"\\u01A5">>, <<"\\u01A4">> >>, << <<"\\u01A8">>, <<"\\u01A7">> >>,
    << <<"\\u01AD">>, <<"\\u01AC">> >>, << <<"\\u01B0">>, <<"\\u01AF">> >>,
    << <<"\\u01B4">>, <<"\\u01B3">> >>, << <<"\\u01B6">>, <<"\\u01B5">> >>,
    << <<"\\u01B9">>, <<"\\u01B8">> >>, << <<"\\u01BD">>, <<"\\u01BC">> >>,
    << <<"\\u01BF">>, <<"\\u01F7">> >>, << <<"\\u01C5">>, <<"\\u01C4">> >>,
    << <<"\\u01C6">>, <<"\\u01C4">> >>, << <<"\\u01C8">>, <<"\\u01C7">> >>,
    << <<"\\u01C9">>, <<"\\u01C7">> >>, << <<"\\u01CB">>, <<"\\u01CA">> >>,
    << <<"\\u01CC">>, <<"\\u01CA">> >>, << <<"\\u01CE">>, <<"\\u01CD">> >>,
    << <<"\\u01D0">>, <<"\\u01CF">> >>, << <<"\\u01D2">>, <<"\\u01D1">> >>,
    << <<"\\u01D4">>, <<"\\u01D3">> >>, << <<"\\u01D6">>, <<"\\u01D5">> >>,
    << <<"\\u01D8">>, <<"\\u01D7">> >>, << <<"\\u01DA">>, <<"\\u01D9">> >>,
    << <<"\\u01DC">>, <<"\\u01DB">> >>, << <<"\\u01DD">>, <<"\\u018E">> >>,
    << <<"\\u01DF">>, <<"\\u01DE">> >>, << <<"\\u01E1">>, <<"\\u01E0">> >>,
    << <<"\\u01E3">>, <<"\\u01E2">> >>, << <<"\\u01E5">>, <<"\\u01E4">> >>,
    << <<"\\u01E7">>, <<"\\u01E6">> >>, << <<"\\u01E9">>, <<"\\u01E8">> >>,
    << <<"\\u01EB">>, <<"\\u01EA">> >>, << <<"\\u01ED">>, <<"\\u01EC">> >>,
    << <<"\\u01EF">>, <<"\\u01EE">> >>, << <<"\\u01F0">>, <<"J", "\\u030C">> >>,
    << <<"\\u01F2">>, <<"\\u01F1">> >>, << <<"\\u01F3">>, <<"\\u01F1">> >>,
    << <<"\\u01F5">>, <<"\\u01F4">> >>, << <<"\\u01F9">>, <<"\\u01F8">> >>,
    << <<"\\u01FB">>, <<"\\u01FA">> >>, << <<"\\u01FD">>, <<"\\u01FC">> >>,
    << <<"\\u01FF">>, <<"\\u01FE">> >>, << <<"\\u0201">>, <<"\\u0200">> >>,
    << <<"\\u0203">>, <<"\\u0202">> >>, << <<"\\u0205">>, <<"\\u0204">> >>,
    << <<"\\u0207">>, <<"\\u0206">> >>, << <<"\\u0209">>, <<"\\u0208">> >>,
    << <<"\\u020B">>, <<"\\u020A">> >>, << <<"\\u020D">>, <<"\\u020C">> >>,
    << <<"\\u020F">>, <<"\\u020E">> >>, << <<"\\u0211">>, <<"\\u0210">> >>,
    << <<"\\u0213">>, <<"\\u0212">> >>, << <<"\\u0215">>, <<"\\u0214">> >>,
    << <<"\\u0217">>, <<"\\u0216">> >>, << <<"\\u0219">>, <<"\\u0218">> >>,
    << <<"\\u021B">>, <<"\\u021A">> >>, << <<"\\u021D">>, <<"\\u021C">> >>,
    << <<"\\u021F">>, <<"\\u021E">> >>, << <<"\\u0223">>, <<"\\u0222">> >>,
    << <<"\\u0225">>, <<"\\u0224">> >>, << <<"\\u0227">>, <<"\\u0226">> >>,
    << <<"\\u0229">>, <<"\\u0228">> >>, << <<"\\u022B">>, <<"\\u022A">> >>,
    << <<"\\u022D">>, <<"\\u022C">> >>, << <<"\\u022F">>, <<"\\u022E">> >>,
    << <<"\\u0231">>, <<"\\u0230">> >>, << <<"\\u0233">>, <<"\\u0232">> >>,
    << <<"\\u023C">>, <<"\\u023B">> >>, << <<"\\u023F">>, <<"\\u2C7E">> >>,
    << <<"\\u0240">>, <<"\\u2C7F">> >>, << <<"\\u0242">>, <<"\\u0241">> >>,
    << <<"\\u0247">>, <<"\\u0246">> >>, << <<"\\u0249">>, <<"\\u0248">> >>,
    << <<"\\u024B">>, <<"\\u024A">> >>, << <<"\\u024D">>, <<"\\u024C">> >>,
    << <<"\\u024F">>, <<"\\u024E">> >>, << <<"\\u0250">>, <<"\\u2C6F">> >>,
    << <<"\\u0251">>, <<"\\u2C6D">> >>, << <<"\\u0252">>, <<"\\u2C70">> >>,
    << <<"\\u0253">>, <<"\\u0181">> >>, << <<"\\u0254">>, <<"\\u0186">> >>,
    << <<"\\u0256">>, <<"\\u0189">> >>, << <<"\\u0257">>, <<"\\u018A">> >>,
    << <<"\\u0259">>, <<"\\u018F">> >>, << <<"\\u025B">>, <<"\\u0190">> >>,
    << <<"\\u025C">>, <<"\\uA7AB">> >>, << <<"\\u0260">>, <<"\\u0193">> >>,
    << <<"\\u0261">>, <<"\\uA7AC">> >>, << <<"\\u0263">>, <<"\\u0194">> >>,
    << <<"\\u0264">>, <<"\\uA7CB">> >>, << <<"\\u0265">>, <<"\\uA78D">> >>,
    << <<"\\u0266">>, <<"\\uA7AA">> >>, << <<"\\u0268">>, <<"\\u0197">> >>,
    << <<"\\u0269">>, <<"\\u0196">> >>, << <<"\\u026A">>, <<"\\uA7AE">> >>,
    << <<"\\u026B">>, <<"\\u2C62">> >>, << <<"\\u026C">>, <<"\\uA7AD">> >>,
    << <<"\\u026F">>, <<"\\u019C">> >>, << <<"\\u0271">>, <<"\\u2C6E">> >>,
    << <<"\\u0272">>, <<"\\u019D">> >>, << <<"\\u0275">>, <<"\\u019F">> >>,
    << <<"\\u027D">>, <<"\\u2C64">> >>, << <<"\\u0280">>, <<"\\u01A6">> >>,
    << <<"\\u0282">>, <<"\\uA7C5">> >>, << <<"\\u0283">>, <<"\\u01A9">> >>,
    << <<"\\u0287">>, <<"\\uA7B1">> >>, << <<"\\u0288">>, <<"\\u01AE">> >>,
    << <<"\\u0289">>, <<"\\u0244">> >>, << <<"\\u028A">>, <<"\\u01B1">> >>,
    << <<"\\u028B">>, <<"\\u01B2">> >>, << <<"\\u028C">>, <<"\\u0245">> >>,
    << <<"\\u0292">>, <<"\\u01B7">> >>, << <<"\\u029D">>, <<"\\uA7B2">> >>,
    << <<"\\u029E">>, <<"\\uA7B0">> >>, << <<"\\u0345">>, <<"\\u0399">> >>,
    << <<"\\u0371">>, <<"\\u0370">> >>, << <<"\\u0373">>, <<"\\u0372">> >>,
    << <<"\\u0377">>, <<"\\u0376">> >>, << <<"\\u037B">>, <<"\\u03FD">> >>,
    << <<"\\u037C">>, <<"\\u03FE">> >>, << <<"\\u037D">>, <<"\\u03FF">> >>,
    << <<"\\u0390">>, <<"\\u0399", "\\u0308", "\\u0301">> >>, << <<"\\u03AC">>, <<"\\u0386">> >>,
    << <<"\\u03AD">>, <<"\\u0388">> >>, << <<"\\u03AE">>, <<"\\u0389">> >>,
    << <<"\\u03AF">>, <<"\\u038A">> >>, << <<"\\u03B0">>, <<"\\u03A5", "\\u0308", "\\u0301">> >>,
    << <<"\\u03B1">>, <<"\\u0391">> >>, << <<"\\u03B2">>, <<"\\u0392">> >>,
    << <<"\\u03B3">>, <<"\\u0393">> >>, << <<"\\u03B4">>, <<"\\u0394">> >>,
    << <<"\\u03B5">>, <<"\\u0395">> >>, << <<"\\u03B6">>, <<"\\u0396">> >>,
    << <<"\\u03B7">>, <<"\\u0397">> >>, << <<"\\u03B8">>, <<"\\u0398">> >>,
    << <<"\\u03B9">>, <<"\\u0399">> >>, << <<"\\u03BA">>, <<"\\u039A">> >>,
    << <<"\\u03BB">>, <<"\\u039B">> >>, << <<"\\u03BC">>, <<"\\u039C">> >>,
    << <<"\\u03BD">>, <<"\\u039D">> >>, << <<"\\u03BE">>, <<"\\u039E">> >>,
    << <<"\\u03BF">>, <<"\\u039F">> >>, << <<"\\u03C0">>, <<"\\u03A0">> >>,
    << <<"\\u03C1">>, <<"\\u03A1">> >>, << <<"\\u03C2">>, <<"\\u03A3">> >>,
    << <<"\\u03C3">>, <<"\\u03A3">> >>, << <<"\\u03C4">>, <<"\\u03A4">> >>,
    << <<"\\u03C5">>, <<"\\u03A5">> >>, << <<"\\u03C6">>, <<"\\u03A6">> >>,
    << <<"\\u03C7">>, <<"\\u03A7">> >>, << <<"\\u03C8">>, <<"\\u03A8">> >>,
    << <<"\\u03C9">>, <<"\\u03A9">> >>, << <<"\\u03CA">>, <<"\\u03AA">> >>,
    << <<"\\u03CB">>, <<"\\u03AB">> >>, << <<"\\u03CC">>, <<"\\u038C">> >>,
    << <<"\\u03CD">>, <<"\\u038E">> >>, << <<"\\u03CE">>, <<"\\u038F">> >>,
    << <<"\\u03D0">>, <<"\\u0392">> >>, << <<"\\u03D1">>, <<"\\u0398">> >>,
    << <<"\\u03D5">>, <<"\\u03A6">> >>, << <<"\\u03D6">>, <<"\\u03A0">> >>,
    << <<"\\u03D7">>, <<"\\u03CF">> >>, << <<"\\u03D9">>, <<"\\u03D8">> >>,
    << <<"\\u03DB">>, <<"\\u03DA">> >>, << <<"\\u03DD">>, <<"\\u03DC">> >>,
    << <<"\\u03DF">>, <<"\\u03DE">> >>, << <<"\\u03E1">>, <<"\\u03E0">> >>,
    << <<"\\u03E3">>, <<"\\u03E2">> >>, << <<"\\u03E5">>, <<"\\u03E4">> >>,
    << <<"\\u03E7">>, <<"\\u03E6">> >>, << <<"\\u03E9">>, <<"\\u03E8">> >>,
    << <<"\\u03EB">>, <<"\\u03EA">> >>, << <<"\\u03ED">>, <<"\\u03EC">> >>,
    << <<"\\u03EF">>, <<"\\u03EE">> >>, << <<"\\u03F0">>, <<"\\u039A">> >>,
    << <<"\\u03F1">>, <<"\\u03A1">> >>, << <<"\\u03F2">>, <<"\\u03F9">> >>,
    << <<"\\u03F3">>, <<"\\u037F">> >>, << <<"\\u03F5">>, <<"\\u0395">> >>,
    << <<"\\u03F8">>, <<"\\u03F7">> >>, << <<"\\u03FB">>, <<"\\u03FA">> >>,
    << <<"\\u0430">>, <<"\\u0410">> >>, << <<"\\u0431">>, <<"\\u0411">> >>,
    << <<"\\u0432">>, <<"\\u0412">> >>, << <<"\\u0433">>, <<"\\u0413">> >>,
    << <<"\\u0434">>, <<"\\u0414">> >>, << <<"\\u0435">>, <<"\\u0415">> >>,
    << <<"\\u0436">>, <<"\\u0416">> >>, << <<"\\u0437">>, <<"\\u0417">> >>,
    << <<"\\u0438">>, <<"\\u0418">> >>, << <<"\\u0439">>, <<"\\u0419">> >>,
    << <<"\\u043A">>, <<"\\u041A">> >>, << <<"\\u043B">>, <<"\\u041B">> >>,
    << <<"\\u043C">>, <<"\\u041C">> >>, << <<"\\u043D">>, <<"\\u041D">> >>,
    << <<"\\u043E">>, <<"\\u041E">> >>, << <<"\\u043F">>, <<"\\u041F">> >>,
    << <<"\\u0440">>, <<"\\u0420">> >>, << <<"\\u0441">>, <<"\\u0421">> >>,
    << <<"\\u0442">>, <<"\\u0422">> >>, << <<"\\u0443">>, <<"\\u0423">> >>,
    << <<"\\u0444">>, <<"\\u0424">> >>, << <<"\\u0445">>, <<"\\u0425">> >>,
    << <<"\\u0446">>, <<"\\u0426">> >>, << <<"\\u0447">>, <<"\\u0427">> >>,
    << <<"\\u0448">>, <<"\\u0428">> >>, << <<"\\u0449">>, <<"\\u0429">> >>,
    << <<"\\u044A">>, <<"\\u042A">> >>, << <<"\\u044B">>, <<"\\u042B">> >>,
    << <<"\\u044C">>, <<"\\u042C">> >>, << <<"\\u044D">>, <<"\\u042D">> >>,
    << <<"\\u044E">>, <<"\\u042E">> >>, << <<"\\u044F">>, <<"\\u042F">> >>,
    << <<"\\u0450">>, <<"\\u0400">> >>, << <<"\\u0451">>, <<"\\u0401">> >>,
    << <<"\\u0452">>, <<"\\u0402">> >>, << <<"\\u0453">>, <<"\\u0403">> >>,
    << <<"\\u0454">>, <<"\\u0404">> >>, << <<"\\u0455">>, <<"\\u0405">> >>,
    << <<"\\u0456">>, <<"\\u0406">> >>, << <<"\\u0457">>, <<"\\u0407">> >>,
    << <<"\\u0458">>, <<"\\u0408">> >>, << <<"\\u0459">>, <<"\\u0409">> >>,
    << <<"\\u045A">>, <<"\\u040A">> >>, << <<"\\u045B">>, <<"\\u040B">> >>,
    << <<"\\u045C">>, <<"\\u040C">> >>, << <<"\\u045D">>, <<"\\u040D">> >>,
    << <<"\\u045E">>, <<"\\u040E">> >>, << <<"\\u045F">>, <<"\\u040F">> >>,
    << <<"\\u0461">>, <<"\\u0460">> >>, << <<"\\u0463">>, <<"\\u0462">> >>,
    << <<"\\u0465">>, <<"\\u0464">> >>, << <<"\\u0467">>, <<"\\u0466">> >>,
    << <<"\\u0469">>, <<"\\u0468">> >>, << <<"\\u046B">>, <<"\\u046A">> >>,
    << <<"\\u046D">>, <<"\\u046C">> >>, << <<"\\u046F">>, <<"\\u046E">> >>,
    << <<"\\u0471">>, <<"\\u0470">> >>, << <<"\\u0473">>, <<"\\u0472">> >>,
    << <<"\\u0475">>, <<"\\u0474">> >>, << <<"\\u0477">>, <<"\\u0476">> >>,
    << <<"\\u0479">>, <<"\\u0478">> >>, << <<"\\u047B">>, <<"\\u047A">> >>,
    << <<"\\u047D">>, <<"\\u047C">> >>, << <<"\\u047F">>, <<"\\u047E">> >>,
    << <<"\\u0481">>, <<"\\u0480">> >>, << <<"\\u048B">>, <<"\\u048A">> >>,
    << <<"\\u048D">>, <<"\\u048C">> >>, << <<"\\u048F">>, <<"\\u048E">> >>,
    << <<"\\u0491">>, <<"\\u0490">> >>, << <<"\\u0493">>, <<"\\u0492">> >>,
    << <<"\\u0495">>, <<"\\u0494">> >>, << <<"\\u0497">>, <<"\\u0496">> >>,
    << <<"\\u0499">>, <<"\\u0498">> >>, << <<"\\u049B">>, <<"\\u049A">> >>,
    << <<"\\u049D">>, <<"\\u049C">> >>, << <<"\\u049F">>, <<"\\u049E">> >>,
    << <<"\\u04A1">>, <<"\\u04A0">> >>, << <<"\\u04A3">>, <<"\\u04A2">> >>,
    << <<"\\u04A5">>, <<"\\u04A4">> >>, << <<"\\u04A7">>, <<"\\u04A6">> >>,
    << <<"\\u04A9">>, <<"\\u04A8">> >>, << <<"\\u04AB">>, <<"\\u04AA">> >>,
    << <<"\\u04AD">>, <<"\\u04AC">> >>, << <<"\\u04AF">>, <<"\\u04AE">> >>,
    << <<"\\u04B1">>, <<"\\u04B0">> >>, << <<"\\u04B3">>, <<"\\u04B2">> >>,
    << <<"\\u04B5">>, <<"\\u04B4">> >>, << <<"\\u04B7">>, <<"\\u04B6">> >>,
    << <<"\\u04B9">>, <<"\\u04B8">> >>, << <<"\\u04BB">>, <<"\\u04BA">> >>,
    << <<"\\u04BD">>, <<"\\u04BC">> >>, << <<"\\u04BF">>, <<"\\u04BE">> >>,
    << <<"\\u04C2">>, <<"\\u04C1">> >>, << <<"\\u04C4">>, <<"\\u04C3">> >>,
    << <<"\\u04C6">>, <<"\\u04C5">> >>, << <<"\\u04C8">>, <<"\\u04C7">> >>,
    << <<"\\u04CA">>, <<"\\u04C9">> >>, << <<"\\u04CC">>, <<"\\u04CB">> >>,
    << <<"\\u04CE">>, <<"\\u04CD">> >>, << <<"\\u04CF">>, <<"\\u04C0">> >>,
    << <<"\\u04D1">>, <<"\\u04D0">> >>, << <<"\\u04D3">>, <<"\\u04D2">> >>,
    << <<"\\u04D5">>, <<"\\u04D4">> >>, << <<"\\u04D7">>, <<"\\u04D6">> >>,
    << <<"\\u04D9">>, <<"\\u04D8">> >>, << <<"\\u04DB">>, <<"\\u04DA">> >>,
    << <<"\\u04DD">>, <<"\\u04DC">> >>, << <<"\\u04DF">>, <<"\\u04DE">> >>,
    << <<"\\u04E1">>, <<"\\u04E0">> >>, << <<"\\u04E3">>, <<"\\u04E2">> >>,
    << <<"\\u04E5">>, <<"\\u04E4">> >>, << <<"\\u04E7">>, <<"\\u04E6">> >>,
    << <<"\\u04E9">>, <<"\\u04E8">> >>, << <<"\\u04EB">>, <<"\\u04EA">> >>,
    << <<"\\u04ED">>, <<"\\u04EC">> >>, << <<"\\u04EF">>, <<"\\u04EE">> >>,
    << <<"\\u04F1">>, <<"\\u04F0">> >>, << <<"\\u04F3">>, <<"\\u04F2">> >>,
    << <<"\\u04F5">>, <<"\\u04F4">> >>, << <<"\\u04F7">>, <<"\\u04F6">> >>,
    << <<"\\u04F9">>, <<"\\u04F8">> >>, << <<"\\u04FB">>, <<"\\u04FA">> >>,
    << <<"\\u04FD">>, <<"\\u04FC">> >>, << <<"\\u04FF">>, <<"\\u04FE">> >>,
    << <<"\\u0501">>, <<"\\u0500">> >>, << <<"\\u0503">>, <<"\\u0502">> >>,
    << <<"\\u0505">>, <<"\\u0504">> >>, << <<"\\u0507">>, <<"\\u0506">> >>,
    << <<"\\u0509">>, <<"\\u0508">> >>, << <<"\\u050B">>, <<"\\u050A">> >>,
    << <<"\\u050D">>, <<"\\u050C">> >>, << <<"\\u050F">>, <<"\\u050E">> >>,
    << <<"\\u0511">>, <<"\\u0510">> >>, << <<"\\u0513">>, <<"\\u0512">> >>,
    << <<"\\u0515">>, <<"\\u0514">> >>, << <<"\\u0517">>, <<"\\u0516">> >>,
    << <<"\\u0519">>, <<"\\u0518">> >>, << <<"\\u051B">>, <<"\\u051A">> >>,
    << <<"\\u051D">>, <<"\\u051C">> >>, << <<"\\u051F">>, <<"\\u051E">> >>,
    << <<"\\u0521">>, <<"\\u0520">> >>, << <<"\\u0523">>, <<"\\u0522">> >>,
    << <<"\\u0525">>, <<"\\u0524">> >>, << <<"\\u0527">>, <<"\\u0526">> >>,
    << <<"\\u0529">>, <<"\\u0528">> >>, << <<"\\u052B">>, <<"\\u052A">> >>,
    << <<"\\u052D">>, <<"\\u052C">> >>, << <<"\\u052F">>, <<"\\u052E">> >>,
    << <<"\\u0561">>, <<"\\u0531">> >>, << <<"\\u0562">>, <<"\\u0532">> >>,
    << <<"\\u0563">>, <<"\\u0533">> >>, << <<"\\u0564">>, <<"\\u0534">> >>,
    << <<"\\u0565">>, <<"\\u0535">> >>, << <<"\\u0566">>, <<"\\u0536">> >>,
    << <<"\\u0567">>, <<"\\u0537">> >>, << <<"\\u0568">>, <<"\\u0538">> >>,
    << <<"\\u0569">>, <<"\\u0539">> >>, << <<"\\u056A">>, <<"\\u053A">> >>,
    << <<"\\u056B">>, <<"\\u053B">> >>, << <<"\\u056C">>, <<"\\u053C">> >>,
    << <<"\\u056D">>, <<"\\u053D">> >>, << <<"\\u056E">>, <<"\\u053E">> >>,
    << <<"\\u056F">>, <<"\\u053F">> >>, << <<"\\u0570">>, <<"\\u0540">> >>,
    << <<"\\u0571">>, <<"\\u0541">> >>, << <<"\\u0572">>, <<"\\u0542">> >>,
    << <<"\\u0573">>, <<"\\u0543">> >>, << <<"\\u0574">>, <<"\\u0544">> >>,
    << <<"\\u0575">>, <<"\\u0545">> >>, << <<"\\u0576">>, <<"\\u0546">> >>,
    << <<"\\u0577">>, <<"\\u0547">> >>, << <<"\\u0578">>, <<"\\u0548">> >>,
    << <<"\\u0579">>, <<"\\u0549">> >>, << <<"\\u057A">>, <<"\\u054A">> >>,
    << <<"\\u057B">>, <<"\\u054B">> >>, << <<"\\u057C">>, <<"\\u054C">> >>,
    << <<"\\u057D">>, <<"\\u054D">> >>, << <<"\\u057E">>, <<"\\u054E">> >>,
    << <<"\\u057F">>, <<"\\u054F">> >>, << <<"\\u0580">>, <<"\\u0550">> >>,
    << <<"\\u0581">>, <<"\\u0551">> >>, << <<"\\u0582">>, <<"\\u0552">> >>,
    << <<"\\u0583">>, <<"\\u0553">> >>, << <<"\\u0584">>, <<"\\u0554">> >>,
    << <<"\\u0585">>, <<"\\u0555">> >>, << <<"\\u0586">>, <<"\\u0556">> >>,
    << <<"\\u0587">>, <<"\\u0535", "\\u0552">> >>, << <<"\\u10D0">>, <<"\\u1C90">> >>,
    << <<"\\u10D1">>, <<"\\u1C91">> >>, << <<"\\u10D2">>, <<"\\u1C92">> >>,
    << <<"\\u10D3">>, <<"\\u1C93">> >>, << <<"\\u10D4">>, <<"\\u1C94">> >>,
    << <<"\\u10D5">>, <<"\\u1C95">> >>, << <<"\\u10D6">>, <<"\\u1C96">> >>,
    << <<"\\u10D7">>, <<"\\u1C97">> >>, << <<"\\u10D8">>, <<"\\u1C98">> >>,
    << <<"\\u10D9">>, <<"\\u1C99">> >>, << <<"\\u10DA">>, <<"\\u1C9A">> >>,
    << <<"\\u10DB">>, <<"\\u1C9B">> >>, << <<"\\u10DC">>, <<"\\u1C9C">> >>,
    << <<"\\u10DD">>, <<"\\u1C9D">> >>, << <<"\\u10DE">>, <<"\\u1C9E">> >>,
    << <<"\\u10DF">>, <<"\\u1C9F">> >>, << <<"\\u10E0">>, <<"\\u1CA0">> >>,
    << <<"\\u10E1">>, <<"\\u1CA1">> >>, << <<"\\u10E2">>, <<"\\u1CA2">> >>,
    << <<"\\u10E3">>, <<"\\u1CA3">> >>, << <<"\\u10E4">>, <<"\\u1CA4">> >>,
    << <<"\\u10E5">>, <<"\\u1CA5">> >>, << <<"\\u10E6">>, <<"\\u1CA6">> >>,
    << <<"\\u10E7">>, <<"\\u1CA7">> >>, << <<"\\u10E8">>, <<"\\u1CA8">> >>,
    << <<"\\u10E9">>, <<"\\u1CA9">> >>, << <<"\\u10EA">>, <<"\\u1CAA">> >>,
    << <<"\\u10EB">>, <<"\\u1CAB">> >>, << <<"\\u10EC">>, <<"\\u1CAC">> >>,
    << <<"\\u10ED">>, <<"\\u1CAD">> >>, << <<"\\u10EE">>, <<"\\u1CAE">> >>,
    << <<"\\u10EF">>, <<"\\u1CAF">> >>, << <<"\\u10F0">>, <<"\\u1CB0">> >>,
    << <<"\\u10F1">>, <<"\\u1CB1">> >>, << <<"\\u10F2">>, <<"\\u1CB2">> >>,
    << <<"\\u10F3">>, <<"\\u1CB3">> >>, << <<"\\u10F4">>, <<"\\u1CB4">> >>,
    << <<"\\u10F5">>, <<"\\u1CB5">> >>, << <<"\\u10F6">>, <<"\\u1CB6">> >>,
    << <<"\\u10F7">>, <<"\\u1CB7">> >>, << <<"\\u10F8">>, <<"\\u1CB8">> >>,
    << <<"\\u10F9">>, <<"\\u1CB9">> >>, << <<"\\u10FA">>, <<"\\u1CBA">> >>,
    << <<"\\u10FD">>, <<"\\u1CBD">> >>, << <<"\\u10FE">>, <<"\\u1CBE">> >>,
    << <<"\\u10FF">>, <<"\\u1CBF">> >>, << <<"\\u13F8">>, <<"\\u13F0">> >>,
    << <<"\\u13F9">>, <<"\\u13F1">> >>, << <<"\\u13FA">>, <<"\\u13F2">> >>,
    << <<"\\u13FB">>, <<"\\u13F3">> >>, << <<"\\u13FC">>, <<"\\u13F4">> >>,
    << <<"\\u13FD">>, <<"\\u13F5">> >>, << <<"\\u1C80">>, <<"\\u0412">> >>,
    << <<"\\u1C81">>, <<"\\u0414">> >>, << <<"\\u1C82">>, <<"\\u041E">> >>,
    << <<"\\u1C83">>, <<"\\u0421">> >>, << <<"\\u1C84">>, <<"\\u0422">> >>,
    << <<"\\u1C85">>, <<"\\u0422">> >>, << <<"\\u1C86">>, <<"\\u042A">> >>,
    << <<"\\u1C87">>, <<"\\u0462">> >>, << <<"\\u1C88">>, <<"\\uA64A">> >>,
    << <<"\\u1C8A">>, <<"\\u1C89">> >>, << <<"\\u1D79">>, <<"\\uA77D">> >>,
    << <<"\\u1D7D">>, <<"\\u2C63">> >>, << <<"\\u1D8E">>, <<"\\uA7C6">> >>,
    << <<"\\u1E01">>, <<"\\u1E00">> >>, << <<"\\u1E03">>, <<"\\u1E02">> >>,
    << <<"\\u1E05">>, <<"\\u1E04">> >>, << <<"\\u1E07">>, <<"\\u1E06">> >>,
    << <<"\\u1E09">>, <<"\\u1E08">> >>, << <<"\\u1E0B">>, <<"\\u1E0A">> >>,
    << <<"\\u1E0D">>, <<"\\u1E0C">> >>, << <<"\\u1E0F">>, <<"\\u1E0E">> >>,
    << <<"\\u1E11">>, <<"\\u1E10">> >>, << <<"\\u1E13">>, <<"\\u1E12">> >>,
    << <<"\\u1E15">>, <<"\\u1E14">> >>, << <<"\\u1E17">>, <<"\\u1E16">> >>,
    << <<"\\u1E19">>, <<"\\u1E18">> >>, << <<"\\u1E1B">>, <<"\\u1E1A">> >>,
    << <<"\\u1E1D">>, <<"\\u1E1C">> >>, << <<"\\u1E1F">>, <<"\\u1E1E">> >>,
    << <<"\\u1E21">>, <<"\\u1E20">> >>, << <<"\\u1E23">>, <<"\\u1E22">> >>,
    << <<"\\u1E25">>, <<"\\u1E24">> >>, << <<"\\u1E27">>, <<"\\u1E26">> >>,
    << <<"\\u1E29">>, <<"\\u1E28">> >>, << <<"\\u1E2B">>, <<"\\u1E2A">> >>,
    << <<"\\u1E2D">>, <<"\\u1E2C">> >>, << <<"\\u1E2F">>, <<"\\u1E2E">> >>,
    << <<"\\u1E31">>, <<"\\u1E30">> >>, << <<"\\u1E33">>, <<"\\u1E32">> >>,
    << <<"\\u1E35">>, <<"\\u1E34">> >>, << <<"\\u1E37">>, <<"\\u1E36">> >>,
    << <<"\\u1E39">>, <<"\\u1E38">> >>, << <<"\\u1E3B">>, <<"\\u1E3A">> >>,
    << <<"\\u1E3D">>, <<"\\u1E3C">> >>, << <<"\\u1E3F">>, <<"\\u1E3E">> >>,
    << <<"\\u1E41">>, <<"\\u1E40">> >>, << <<"\\u1E43">>, <<"\\u1E42">> >>,
    << <<"\\u1E45">>, <<"\\u1E44">> >>, << <<"\\u1E47">>, <<"\\u1E46">> >>,
    << <<"\\u1E49">>, <<"\\u1E48">> >>, << <<"\\u1E4B">>, <<"\\u1E4A">> >>,
    << <<"\\u1E4D">>, <<"\\u1E4C">> >>, << <<"\\u1E4F">>, <<"\\u1E4E">> >>,
    << <<"\\u1E51">>, <<"\\u1E50">> >>, << <<"\\u1E53">>, <<"\\u1E52">> >>,
    << <<"\\u1E55">>, <<"\\u1E54">> >>, << <<"\\u1E57">>, <<"\\u1E56">> >>,
    << <<"\\u1E59">>, <<"\\u1E58">> >>, << <<"\\u1E5B">>, <<"\\u1E5A">> >>,
    << <<"\\u1E5D">>, <<"\\u1E5C">> >>, << <<"\\u1E5F">>, <<"\\u1E5E">> >>,
    << <<"\\u1E61">>, <<"\\u1E60">> >>, << <<"\\u1E63">>, <<"\\u1E62">> >>,
    << <<"\\u1E65">>, <<"\\u1E64">> >>, << <<"\\u1E67">>, <<"\\u1E66">> >>,
    << <<"\\u1E69">>, <<"\\u1E68">> >>, << <<"\\u1E6B">>, <<"\\u1E6A">> >>,
    << <<"\\u1E6D">>, <<"\\u1E6C">> >>, << <<"\\u1E6F">>, <<"\\u1E6E">> >>,
    << <<"\\u1E71">>, <<"\\u1E70">> >>, << <<"\\u1E73">>, <<"\\u1E72">> >>,
    << <<"\\u1E75">>, <<"\\u1E74">> >>, << <<"\\u1E77">>, <<"\\u1E76">> >>,
    << <<"\\u1E79">>, <<"\\u1E78">> >>, << <<"\\u1E7B">>, <<"\\u1E7A">> >>,
    << <<"\\u1E7D">>, <<"\\u1E7C">> >>, << <<"\\u1E7F">>, <<"\\u1E7E">> >>,
    << <<"\\u1E81">>, <<"\\u1E80">> >>, << <<"\\u1E83">>, <<"\\u1E82">> >>,
    << <<"\\u1E85">>, <<"\\u1E84">> >>, << <<"\\u1E87">>, <<"\\u1E86">> >>,
    << <<"\\u1E89">>, <<"\\u1E88">> >>, << <<"\\u1E8B">>, <<"\\u1E8A">> >>,
    << <<"\\u1E8D">>, <<"\\u1E8C">> >>, << <<"\\u1E8F">>, <<"\\u1E8E">> >>,
    << <<"\\u1E91">>, <<"\\u1E90">> >>, << <<"\\u1E93">>, <<"\\u1E92">> >>,
    << <<"\\u1E95">>, <<"\\u1E94">> >>, << <<"\\u1E96">>, <<"H", "\\u0331">> >>,
    << <<"\\u1E97">>, <<"T", "\\u0308">> >>, << <<"\\u1E98">>, <<"W", "\\u030A">> >>,
    << <<"\\u1E99">>, <<"Y", "\\u030A">> >>, << <<"\\u1E9A">>, <<"A", "\\u02BE">> >>,
    << <<"\\u1E9B">>, <<"\\u1E60">> >>, << <<"\\u1EA1">>, <<"\\u1EA0">> >>,
    << <<"\\u1EA3">>, <<"\\u1EA2">> >>, << <<"\\u1EA5">>, <<"\\u1EA4">> >>,
    << <<"\\u1EA7">>, <<"\\u1EA6">> >>, << <<"\\u1EA9">>, <<"\\u1EA8">> >>,
    << <<"\\u1EAB">>, <<"\\u1EAA">> >>, << <<"\\u1EAD">>, <<"\\u1EAC">> >>,
    << <<"\\u1EAF">>, <<"\\u1EAE">> >>, << <<"\\u1EB1">>, <<"\\u1EB0">> >>,
    << <<"\\u1EB3">>, <<"\\u1EB2">> >>, << <<"\\u1EB5">>, <<"\\u1EB4">> >>,
    << <<"\\u1EB7">>, <<"\\u1EB6">> >>, << <<"\\u1EB9">>, <<"\\u1EB8">> >>,
    << <<"\\u1EBB">>, <<"\\u1EBA">> >>, << <<"\\u1EBD">>, <<"\\u1EBC">> >>,
    << <<"\\u1EBF">>, <<"\\u1EBE">> >>, << <<"\\u1EC1">>, <<"\\u1EC0">> >>,
    << <<"\\u1EC3">>, <<"\\u1EC2">> >>, << <<"\\u1EC5">>, <<"\\u1EC4">> >>,
    << <<"\\u1EC7">>, <<"\\u1EC6">> >>, << <<"\\u1EC9">>, <<"\\u1EC8">> >>,
    << <<"\\u1ECB">>, <<"\\u1ECA">> >>, << <<"\\u1ECD">>, <<"\\u1ECC">> >>,
    << <<"\\u1ECF">>, <<"\\u1ECE">> >>, << <<"\\u1ED1">>, <<"\\u1ED0">> >>,
    << <<"\\u1ED3">>, <<"\\u1ED2">> >>, << <<"\\u1ED5">>, <<"\\u1ED4">> >>,
    << <<"\\u1ED7">>, <<"\\u1ED6">> >>, << <<"\\u1ED9">>, <<"\\u1ED8">> >>,
    << <<"\\u1EDB">>, <<"\\u1EDA">> >>, << <<"\\u1EDD">>, <<"\\u1EDC">> >>,
    << <<"\\u1EDF">>, <<"\\u1EDE">> >>, << <<"\\u1EE1">>, <<"\\u1EE0">> >>,
    << <<"\\u1EE3">>, <<"\\u1EE2">> >>, << <<"\\u1EE5">>, <<"\\u1EE4">> >>,
    << <<"\\u1EE7">>, <<"\\u1EE6">> >>, << <<"\\u1EE9">>, <<"\\u1EE8">> >>,
    << <<"\\u1EEB">>, <<"\\u1EEA">> >>, << <<"\\u1EED">>, <<"\\u1EEC">> >>,
    << <<"\\u1EEF">>, <<"\\u1EEE">> >>, << <<"\\u1EF1">>, <<"\\u1EF0">> >>,
    << <<"\\u1EF3">>, <<"\\u1EF2">> >>, << <<"\\u1EF5">>, <<"\\u1EF4">> >>,
    << <<"\\u1EF7">>, <<"\\u1EF6">> >>, << <<"\\u1EF9">>, <<"\\u1EF8">> >>,
    << <<"\\u1EFB">>, <<"\\u1EFA">> >>, << <<"\\u1EFD">>, <<"\\u1EFC">> >>,
    << <<"\\u1EFF">>, <<"\\u1EFE">> >>, << <<"\\u1F00">>, <<"\\u1F08">> >>,
    << <<"\\u1F01">>, <<"\\u1F09">> >>, << <<"\\u1F02">>, <<"\\u1F0A">> >>,
    << <<"\\u1F03">>, <<"\\u1F0B">> >>, << <<"\\u1F04">>, <<"\\u1F0C">> >>,
    << <<"\\u1F05">>, <<"\\u1F0D">> >>, << <<"\\u1F06">>, <<"\\u1F0E">> >>,
    << <<"\\u1F07">>, <<"\\u1F0F">> >>, << <<"\\u1F10">>, <<"\\u1F18">> >>,
    << <<"\\u1F11">>, <<"\\u1F19">> >>, << <<"\\u1F12">>, <<"\\u1F1A">> >>,
    << <<"\\u1F13">>, <<"\\u1F1B">> >>, << <<"\\u1F14">>, <<"\\u1F1C">> >>,
    << <<"\\u1F15">>, <<"\\u1F1D">> >>, << <<"\\u1F20">>, <<"\\u1F28">> >>,
    << <<"\\u1F21">>, <<"\\u1F29">> >>, << <<"\\u1F22">>, <<"\\u1F2A">> >>,
    << <<"\\u1F23">>, <<"\\u1F2B">> >>, << <<"\\u1F24">>, <<"\\u1F2C">> >>,
    << <<"\\u1F25">>, <<"\\u1F2D">> >>, << <<"\\u1F26">>, <<"\\u1F2E">> >>,
    << <<"\\u1F27">>, <<"\\u1F2F">> >>, << <<"\\u1F30">>, <<"\\u1F38">> >>,
    << <<"\\u1F31">>, <<"\\u1F39">> >>, << <<"\\u1F32">>, <<"\\u1F3A">> >>,
    << <<"\\u1F33">>, <<"\\u1F3B">> >>, << <<"\\u1F34">>, <<"\\u1F3C">> >>,
    << <<"\\u1F35">>, <<"\\u1F3D">> >>, << <<"\\u1F36">>, <<"\\u1F3E">> >>,
    << <<"\\u1F37">>, <<"\\u1F3F">> >>, << <<"\\u1F40">>, <<"\\u1F48">> >>,
    << <<"\\u1F41">>, <<"\\u1F49">> >>, << <<"\\u1F42">>, <<"\\u1F4A">> >>,
    << <<"\\u1F43">>, <<"\\u1F4B">> >>, << <<"\\u1F44">>, <<"\\u1F4C">> >>,
    << <<"\\u1F45">>, <<"\\u1F4D">> >>, << <<"\\u1F50">>, <<"\\u03A5", "\\u0313">> >>,
    << <<"\\u1F51">>, <<"\\u1F59">> >>, << <<"\\u1F52">>, <<"\\u03A5", "\\u0313", "\\u0300">> >>,
    << <<"\\u1F53">>, <<"\\u1F5B">> >>, << <<"\\u1F54">>, <<"\\u03A5", "\\u0313", "\\u0301">> >>,
    << <<"\\u1F55">>, <<"\\u1F5D">> >>, << <<"\\u1F56">>, <<"\\u03A5", "\\u0313", "\\u0342">> >>,
    << <<"\\u1F57">>, <<"\\u1F5F">> >>, << <<"\\u1F60">>, <<"\\u1F68">> >>,
    << <<"\\u1F61">>, <<"\\u1F69">> >>, << <<"\\u1F62">>, <<"\\u1F6A">> >>,
    << <<"\\u1F63">>, <<"\\u1F6B">> >>, << <<"\\u1F64">>, <<"\\u1F6C">> >>,
    << <<"\\u1F65">>, <<"\\u1F6D">> >>, << <<"\\u1F66">>, <<"\\u1F6E">> >>,
    << <<"\\u1F67">>, <<"\\u1F6F">> >>, << <<"\\u1F70">>, <<"\\u1FBA">> >>,
    << <<"\\u1F71">>, <<"\\u1FBB">> >>, << <<"\\u1F72">>, <<"\\u1FC8">> >>,
    << <<"\\u1F73">>, <<"\\u1FC9">> >>, << <<"\\u1F74">>, <<"\\u1FCA">> >>,
    << <<"\\u1F75">>, <<"\\u1FCB">> >>, << <<"\\u1F76">>, <<"\\u1FDA">> >>,
    << <<"\\u1F77">>, <<"\\u1FDB">> >>, << <<"\\u1F78">>, <<"\\u1FF8">> >>,
    << <<"\\u1F79">>, <<"\\u1FF9">> >>, << <<"\\u1F7A">>, <<"\\u1FEA">> >>,
    << <<"\\u1F7B">>, <<"\\u1FEB">> >>, << <<"\\u1F7C">>, <<"\\u1FFA">> >>,
    << <<"\\u1F7D">>, <<"\\u1FFB">> >>, << <<"\\u1F80">>, <<"\\u1F08", "\\u0399">> >>,
    << <<"\\u1F81">>, <<"\\u1F09", "\\u0399">> >>, << <<"\\u1F82">>, <<"\\u1F0A", "\\u0399">> >>,
    << <<"\\u1F83">>, <<"\\u1F0B", "\\u0399">> >>, << <<"\\u1F84">>, <<"\\u1F0C", "\\u0399">> >>,
    << <<"\\u1F85">>, <<"\\u1F0D", "\\u0399">> >>, << <<"\\u1F86">>, <<"\\u1F0E", "\\u0399">> >>,
    << <<"\\u1F87">>, <<"\\u1F0F", "\\u0399">> >>, << <<"\\u1F88">>, <<"\\u1F08", "\\u0399">> >>,
    << <<"\\u1F89">>, <<"\\u1F09", "\\u0399">> >>, << <<"\\u1F8A">>, <<"\\u1F0A", "\\u0399">> >>,
    << <<"\\u1F8B">>, <<"\\u1F0B", "\\u0399">> >>, << <<"\\u1F8C">>, <<"\\u1F0C", "\\u0399">> >>,
    << <<"\\u1F8D">>, <<"\\u1F0D", "\\u0399">> >>, << <<"\\u1F8E">>, <<"\\u1F0E", "\\u0399">> >>,
    << <<"\\u1F8F">>, <<"\\u1F0F", "\\u0399">> >>, << <<"\\u1F90">>, <<"\\u1F28", "\\u0399">> >>,
    << <<"\\u1F91">>, <<"\\u1F29", "\\u0399">> >>, << <<"\\u1F92">>, <<"\\u1F2A", "\\u0399">> >>,
    << <<"\\u1F93">>, <<"\\u1F2B", "\\u0399">> >>, << <<"\\u1F94">>, <<"\\u1F2C", "\\u0399">> >>,
    << <<"\\u1F95">>, <<"\\u1F2D", "\\u0399">> >>, << <<"\\u1F96">>, <<"\\u1F2E", "\\u0399">> >>,
    << <<"\\u1F97">>, <<"\\u1F2F", "\\u0399">> >>, << <<"\\u1F98">>, <<"\\u1F28", "\\u0399">> >>,
    << <<"\\u1F99">>, <<"\\u1F29", "\\u0399">> >>, << <<"\\u1F9A">>, <<"\\u1F2A", "\\u0399">> >>,
    << <<"\\u1F9B">>, <<"\\u1F2B", "\\u0399">> >>, << <<"\\u1F9C">>, <<"\\u1F2C", "\\u0399">> >>,
    << <<"\\u1F9D">>, <<"\\u1F2D", "\\u0399">> >>, << <<"\\u1F9E">>, <<"\\u1F2E", "\\u0399">> >>,
    << <<"\\u1F9F">>, <<"\\u1F2F", "\\u0399">> >>, << <<"\\u1FA0">>, <<"\\u1F68", "\\u0399">> >>,
    << <<"\\u1FA1">>, <<"\\u1F69", "\\u0399">> >>, << <<"\\u1FA2">>, <<"\\u1F6A", "\\u0399">> >>,
    << <<"\\u1FA3">>, <<"\\u1F6B", "\\u0399">> >>, << <<"\\u1FA4">>, <<"\\u1F6C", "\\u0399">> >>,
    << <<"\\u1FA5">>, <<"\\u1F6D", "\\u0399">> >>, << <<"\\u1FA6">>, <<"\\u1F6E", "\\u0399">> >>,
    << <<"\\u1FA7">>, <<"\\u1F6F", "\\u0399">> >>, << <<"\\u1FA8">>, <<"\\u1F68", "\\u0399">> >>,
    << <<"\\u1FA9">>, <<"\\u1F69", "\\u0399">> >>, << <<"\\u1FAA">>, <<"\\u1F6A", "\\u0399">> >>,
    << <<"\\u1FAB">>, <<"\\u1F6B", "\\u0399">> >>, << <<"\\u1FAC">>, <<"\\u1F6C", "\\u0399">> >>,
    << <<"\\u1FAD">>, <<"\\u1F6D", "\\u0399">> >>, << <<"\\u1FAE">>, <<"\\u1F6E", "\\u0399">> >>,
    << <<"\\u1FAF">>, <<"\\u1F6F", "\\u0399">> >>, << <<"\\u1FB0">>, <<"\\u1FB8">> >>,
    << <<"\\u1FB1">>, <<"\\u1FB9">> >>, << <<"\\u1FB2">>, <<"\\u1FBA", "\\u0399">> >>,
    << <<"\\u1FB3">>, <<"\\u0391", "\\u0399">> >>, << <<"\\u1FB4">>, <<"\\u0386", "\\u0399">> >>,
    << <<"\\u1FB6">>, <<"\\u0391", "\\u0342">> >>,
    << <<"\\u1FB7">>, <<"\\u0391", "\\u0342", "\\u0399">> >>,
    << <<"\\u1FBC">>, <<"\\u0391", "\\u0399">> >>, << <<"\\u1FBE">>, <<"\\u0399">> >>,
    << <<"\\u1FC2">>, <<"\\u1FCA", "\\u0399">> >>, << <<"\\u1FC3">>, <<"\\u0397", "\\u0399">> >>,
    << <<"\\u1FC4">>, <<"\\u0389", "\\u0399">> >>, << <<"\\u1FC6">>, <<"\\u0397", "\\u0342">> >>,
    << <<"\\u1FC7">>, <<"\\u0397", "\\u0342", "\\u0399">> >>,
    << <<"\\u1FCC">>, <<"\\u0397", "\\u0399">> >>, << <<"\\u1FD0">>, <<"\\u1FD8">> >>,
    << <<"\\u1FD1">>, <<"\\u1FD9">> >>, << <<"\\u1FD2">>, <<"\\u0399", "\\u0308", "\\u0300">> >>,
    << <<"\\u1FD3">>, <<"\\u0399", "\\u0308", "\\u0301">> >>,
    << <<"\\u1FD6">>, <<"\\u0399", "\\u0342">> >>,
    << <<"\\u1FD7">>, <<"\\u0399", "\\u0308", "\\u0342">> >>, << <<"\\u1FE0">>, <<"\\u1FE8">> >>,
    << <<"\\u1FE1">>, <<"\\u1FE9">> >>, << <<"\\u1FE2">>, <<"\\u03A5", "\\u0308", "\\u0300">> >>,
    << <<"\\u1FE3">>, <<"\\u03A5", "\\u0308", "\\u0301">> >>,
    << <<"\\u1FE4">>, <<"\\u03A1", "\\u0313">> >>, << <<"\\u1FE5">>, <<"\\u1FEC">> >>,
    << <<"\\u1FE6">>, <<"\\u03A5", "\\u0342">> >>,
    << <<"\\u1FE7">>, <<"\\u03A5", "\\u0308", "\\u0342">> >>,
    << <<"\\u1FF2">>, <<"\\u1FFA", "\\u0399">> >>, << <<"\\u1FF3">>, <<"\\u03A9", "\\u0399">> >>,
    << <<"\\u1FF4">>, <<"\\u038F", "\\u0399">> >>, << <<"\\u1FF6">>, <<"\\u03A9", "\\u0342">> >>,
    << <<"\\u1FF7">>, <<"\\u03A9", "\\u0342", "\\u0399">> >>,
    << <<"\\u1FFC">>, <<"\\u03A9", "\\u0399">> >>, << <<"\\u214E">>, <<"\\u2132">> >>,
    << <<"\\u2170">>, <<"\\u2160">> >>, << <<"\\u2171">>, <<"\\u2161">> >>,
    << <<"\\u2172">>, <<"\\u2162">> >>, << <<"\\u2173">>, <<"\\u2163">> >>,
    << <<"\\u2174">>, <<"\\u2164">> >>, << <<"\\u2175">>, <<"\\u2165">> >>,
    << <<"\\u2176">>, <<"\\u2166">> >>, << <<"\\u2177">>, <<"\\u2167">> >>,
    << <<"\\u2178">>, <<"\\u2168">> >>, << <<"\\u2179">>, <<"\\u2169">> >>,
    << <<"\\u217A">>, <<"\\u216A">> >>, << <<"\\u217B">>, <<"\\u216B">> >>,
    << <<"\\u217C">>, <<"\\u216C">> >>, << <<"\\u217D">>, <<"\\u216D">> >>,
    << <<"\\u217E">>, <<"\\u216E">> >>, << <<"\\u217F">>, <<"\\u216F">> >>,
    << <<"\\u2184">>, <<"\\u2183">> >>, << <<"\\u24D0">>, <<"\\u24B6">> >>,
    << <<"\\u24D1">>, <<"\\u24B7">> >>, << <<"\\u24D2">>, <<"\\u24B8">> >>,
    << <<"\\u24D3">>, <<"\\u24B9">> >>, << <<"\\u24D4">>, <<"\\u24BA">> >>,
    << <<"\\u24D5">>, <<"\\u24BB">> >>, << <<"\\u24D6">>, <<"\\u24BC">> >>,
    << <<"\\u24D7">>, <<"\\u24BD">> >>, << <<"\\u24D8">>, <<"\\u24BE">> >>,
    << <<"\\u24D9">>, <<"\\u24BF">> >>, << <<"\\u24DA">>, <<"\\u24C0">> >>,
    << <<"\\u24DB">>, <<"\\u24C1">> >>, << <<"\\u24DC">>, <<"\\u24C2">> >>,
    << <<"\\u24DD">>, <<"\\u24C3">> >>, << <<"\\u24DE">>, <<"\\u24C4">> >>,
    << <<"\\u24DF">>, <<"\\u24C5">> >>, << <<"\\u24E0">>, <<"\\u24C6">> >>,
    << <<"\\u24E1">>, <<"\\u24C7">> >>, << <<"\\u24E2">>, <<"\\u24C8">> >>,
    << <<"\\u24E3">>, <<"\\u24C9">> >>, << <<"\\u24E4">>, <<"\\u24CA">> >>,
    << <<"\\u24E5">>, <<"\\u24CB">> >>, << <<"\\u24E6">>, <<"\\u24CC">> >>,
    << <<"\\u24E7">>, <<"\\u24CD">> >>, << <<"\\u24E8">>, <<"\\u24CE">> >>,
    << <<"\\u24E9">>, <<"\\u24CF">> >>, << <<"\\u2C30">>, <<"\\u2C00">> >>,
    << <<"\\u2C31">>, <<"\\u2C01">> >>, << <<"\\u2C32">>, <<"\\u2C02">> >>,
    << <<"\\u2C33">>, <<"\\u2C03">> >>, << <<"\\u2C34">>, <<"\\u2C04">> >>,
    << <<"\\u2C35">>, <<"\\u2C05">> >>, << <<"\\u2C36">>, <<"\\u2C06">> >>,
    << <<"\\u2C37">>, <<"\\u2C07">> >>, << <<"\\u2C38">>, <<"\\u2C08">> >>,
    << <<"\\u2C39">>, <<"\\u2C09">> >>, << <<"\\u2C3A">>, <<"\\u2C0A">> >>,
    << <<"\\u2C3B">>, <<"\\u2C0B">> >>, << <<"\\u2C3C">>, <<"\\u2C0C">> >>,
    << <<"\\u2C3D">>, <<"\\u2C0D">> >>, << <<"\\u2C3E">>, <<"\\u2C0E">> >>,
    << <<"\\u2C3F">>, <<"\\u2C0F">> >>, << <<"\\u2C40">>, <<"\\u2C10">> >>,
    << <<"\\u2C41">>, <<"\\u2C11">> >>, << <<"\\u2C42">>, <<"\\u2C12">> >>,
    << <<"\\u2C43">>, <<"\\u2C13">> >>, << <<"\\u2C44">>, <<"\\u2C14">> >>,
    << <<"\\u2C45">>, <<"\\u2C15">> >>, << <<"\\u2C46">>, <<"\\u2C16">> >>,
    << <<"\\u2C47">>, <<"\\u2C17">> >>, << <<"\\u2C48">>, <<"\\u2C18">> >>,
    << <<"\\u2C49">>, <<"\\u2C19">> >>, << <<"\\u2C4A">>, <<"\\u2C1A">> >>,
    << <<"\\u2C4B">>, <<"\\u2C1B">> >>, << <<"\\u2C4C">>, <<"\\u2C1C">> >>,
    << <<"\\u2C4D">>, <<"\\u2C1D">> >>, << <<"\\u2C4E">>, <<"\\u2C1E">> >>,
    << <<"\\u2C4F">>, <<"\\u2C1F">> >>, << <<"\\u2C50">>, <<"\\u2C20">> >>,
    << <<"\\u2C51">>, <<"\\u2C21">> >>, << <<"\\u2C52">>, <<"\\u2C22">> >>,
    << <<"\\u2C53">>, <<"\\u2C23">> >>, << <<"\\u2C54">>, <<"\\u2C24">> >>,
    << <<"\\u2C55">>, <<"\\u2C25">> >>, << <<"\\u2C56">>, <<"\\u2C26">> >>,
    << <<"\\u2C57">>, <<"\\u2C27">> >>, << <<"\\u2C58">>, <<"\\u2C28">> >>,
    << <<"\\u2C59">>, <<"\\u2C29">> >>, << <<"\\u2C5A">>, <<"\\u2C2A">> >>,
    << <<"\\u2C5B">>, <<"\\u2C2B">> >>, << <<"\\u2C5C">>, <<"\\u2C2C">> >>,
    << <<"\\u2C5D">>, <<"\\u2C2D">> >>, << <<"\\u2C5E">>, <<"\\u2C2E">> >>,
    << <<"\\u2C5F">>, <<"\\u2C2F">> >>, << <<"\\u2C61">>, <<"\\u2C60">> >>,
    << <<"\\u2C65">>, <<"\\u023A">> >>, << <<"\\u2C66">>, <<"\\u023E">> >>,
    << <<"\\u2C68">>, <<"\\u2C67">> >>, << <<"\\u2C6A">>, <<"\\u2C69">> >>,
    << <<"\\u2C6C">>, <<"\\u2C6B">> >>, << <<"\\u2C73">>, <<"\\u2C72">> >>,
    << <<"\\u2C76">>, <<"\\u2C75">> >>, << <<"\\u2C81">>, <<"\\u2C80">> >>,
    << <<"\\u2C83">>, <<"\\u2C82">> >>, << <<"\\u2C85">>, <<"\\u2C84">> >>,
    << <<"\\u2C87">>, <<"\\u2C86">> >>, << <<"\\u2C89">>, <<"\\u2C88">> >>,
    << <<"\\u2C8B">>, <<"\\u2C8A">> >>, << <<"\\u2C8D">>, <<"\\u2C8C">> >>,
    << <<"\\u2C8F">>, <<"\\u2C8E">> >>, << <<"\\u2C91">>, <<"\\u2C90">> >>,
    << <<"\\u2C93">>, <<"\\u2C92">> >>, << <<"\\u2C95">>, <<"\\u2C94">> >>,
    << <<"\\u2C97">>, <<"\\u2C96">> >>, << <<"\\u2C99">>, <<"\\u2C98">> >>,
    << <<"\\u2C9B">>, <<"\\u2C9A">> >>, << <<"\\u2C9D">>, <<"\\u2C9C">> >>,
    << <<"\\u2C9F">>, <<"\\u2C9E">> >>, << <<"\\u2CA1">>, <<"\\u2CA0">> >>,
    << <<"\\u2CA3">>, <<"\\u2CA2">> >>, << <<"\\u2CA5">>, <<"\\u2CA4">> >>,
    << <<"\\u2CA7">>, <<"\\u2CA6">> >>, << <<"\\u2CA9">>, <<"\\u2CA8">> >>,
    << <<"\\u2CAB">>, <<"\\u2CAA">> >>, << <<"\\u2CAD">>, <<"\\u2CAC">> >>,
    << <<"\\u2CAF">>, <<"\\u2CAE">> >>, << <<"\\u2CB1">>, <<"\\u2CB0">> >>,
    << <<"\\u2CB3">>, <<"\\u2CB2">> >>, << <<"\\u2CB5">>, <<"\\u2CB4">> >>,
    << <<"\\u2CB7">>, <<"\\u2CB6">> >>, << <<"\\u2CB9">>, <<"\\u2CB8">> >>,
    << <<"\\u2CBB">>, <<"\\u2CBA">> >>, << <<"\\u2CBD">>, <<"\\u2CBC">> >>,
    << <<"\\u2CBF">>, <<"\\u2CBE">> >>, << <<"\\u2CC1">>, <<"\\u2CC0">> >>,
    << <<"\\u2CC3">>, <<"\\u2CC2">> >>, << <<"\\u2CC5">>, <<"\\u2CC4">> >>,
    << <<"\\u2CC7">>, <<"\\u2CC6">> >>, << <<"\\u2CC9">>, <<"\\u2CC8">> >>,
    << <<"\\u2CCB">>, <<"\\u2CCA">> >>, << <<"\\u2CCD">>, <<"\\u2CCC">> >>,
    << <<"\\u2CCF">>, <<"\\u2CCE">> >>, << <<"\\u2CD1">>, <<"\\u2CD0">> >>,
    << <<"\\u2CD3">>, <<"\\u2CD2">> >>, << <<"\\u2CD5">>, <<"\\u2CD4">> >>,
    << <<"\\u2CD7">>, <<"\\u2CD6">> >>, << <<"\\u2CD9">>, <<"\\u2CD8">> >>,
    << <<"\\u2CDB">>, <<"\\u2CDA">> >>, << <<"\\u2CDD">>, <<"\\u2CDC">> >>,
    << <<"\\u2CDF">>, <<"\\u2CDE">> >>, << <<"\\u2CE1">>, <<"\\u2CE0">> >>,
    << <<"\\u2CE3">>, <<"\\u2CE2">> >>, << <<"\\u2CEC">>, <<"\\u2CEB">> >>,
    << <<"\\u2CEE">>, <<"\\u2CED">> >>, << <<"\\u2CF3">>, <<"\\u2CF2">> >>,
    << <<"\\u2D00">>, <<"\\u10A0">> >>, << <<"\\u2D01">>, <<"\\u10A1">> >>,
    << <<"\\u2D02">>, <<"\\u10A2">> >>, << <<"\\u2D03">>, <<"\\u10A3">> >>,
    << <<"\\u2D04">>, <<"\\u10A4">> >>, << <<"\\u2D05">>, <<"\\u10A5">> >>,
    << <<"\\u2D06">>, <<"\\u10A6">> >>, << <<"\\u2D07">>, <<"\\u10A7">> >>,
    << <<"\\u2D08">>, <<"\\u10A8">> >>, << <<"\\u2D09">>, <<"\\u10A9">> >>,
    << <<"\\u2D0A">>, <<"\\u10AA">> >>, << <<"\\u2D0B">>, <<"\\u10AB">> >>,
    << <<"\\u2D0C">>, <<"\\u10AC">> >>, << <<"\\u2D0D">>, <<"\\u10AD">> >>,
    << <<"\\u2D0E">>, <<"\\u10AE">> >>, << <<"\\u2D0F">>, <<"\\u10AF">> >>,
    << <<"\\u2D10">>, <<"\\u10B0">> >>, << <<"\\u2D11">>, <<"\\u10B1">> >>,
    << <<"\\u2D12">>, <<"\\u10B2">> >>, << <<"\\u2D13">>, <<"\\u10B3">> >>,
    << <<"\\u2D14">>, <<"\\u10B4">> >>, << <<"\\u2D15">>, <<"\\u10B5">> >>,
    << <<"\\u2D16">>, <<"\\u10B6">> >>, << <<"\\u2D17">>, <<"\\u10B7">> >>,
    << <<"\\u2D18">>, <<"\\u10B8">> >>, << <<"\\u2D19">>, <<"\\u10B9">> >>,
    << <<"\\u2D1A">>, <<"\\u10BA">> >>, << <<"\\u2D1B">>, <<"\\u10BB">> >>,
    << <<"\\u2D1C">>, <<"\\u10BC">> >>, << <<"\\u2D1D">>, <<"\\u10BD">> >>,
    << <<"\\u2D1E">>, <<"\\u10BE">> >>, << <<"\\u2D1F">>, <<"\\u10BF">> >>,
    << <<"\\u2D20">>, <<"\\u10C0">> >>, << <<"\\u2D21">>, <<"\\u10C1">> >>,
    << <<"\\u2D22">>, <<"\\u10C2">> >>, << <<"\\u2D23">>, <<"\\u10C3">> >>,
    << <<"\\u2D24">>, <<"\\u10C4">> >>, << <<"\\u2D25">>, <<"\\u10C5">> >>,
    << <<"\\u2D27">>, <<"\\u10C7">> >>, << <<"\\u2D2D">>, <<"\\u10CD">> >>,
    << <<"\\uA641">>, <<"\\uA640">> >>, << <<"\\uA643">>, <<"\\uA642">> >>,
    << <<"\\uA645">>, <<"\\uA644">> >>, << <<"\\uA647">>, <<"\\uA646">> >>,
    << <<"\\uA649">>, <<"\\uA648">> >>, << <<"\\uA64B">>, <<"\\uA64A">> >>,
    << <<"\\uA64D">>, <<"\\uA64C">> >>, << <<"\\uA64F">>, <<"\\uA64E">> >>,
    << <<"\\uA651">>, <<"\\uA650">> >>, << <<"\\uA653">>, <<"\\uA652">> >>,
    << <<"\\uA655">>, <<"\\uA654">> >>, << <<"\\uA657">>, <<"\\uA656">> >>,
    << <<"\\uA659">>, <<"\\uA658">> >>, << <<"\\uA65B">>, <<"\\uA65A">> >>,
    << <<"\\uA65D">>, <<"\\uA65C">> >>, << <<"\\uA65F">>, <<"\\uA65E">> >>,
    << <<"\\uA661">>, <<"\\uA660">> >>, << <<"\\uA663">>, <<"\\uA662">> >>,
    << <<"\\uA665">>, <<"\\uA664">> >>, << <<"\\uA667">>, <<"\\uA666">> >>,
    << <<"\\uA669">>, <<"\\uA668">> >>, << <<"\\uA66B">>, <<"\\uA66A">> >>,
    << <<"\\uA66D">>, <<"\\uA66C">> >>, << <<"\\uA681">>, <<"\\uA680">> >>,
    << <<"\\uA683">>, <<"\\uA682">> >>, << <<"\\uA685">>, <<"\\uA684">> >>,
    << <<"\\uA687">>, <<"\\uA686">> >>, << <<"\\uA689">>, <<"\\uA688">> >>,
    << <<"\\uA68B">>, <<"\\uA68A">> >>, << <<"\\uA68D">>, <<"\\uA68C">> >>,
    << <<"\\uA68F">>, <<"\\uA68E">> >>, << <<"\\uA691">>, <<"\\uA690">> >>,
    << <<"\\uA693">>, <<"\\uA692">> >>, << <<"\\uA695">>, <<"\\uA694">> >>,
    << <<"\\uA697">>, <<"\\uA696">> >>, << <<"\\uA699">>, <<"\\uA698">> >>,
    << <<"\\uA69B">>, <<"\\uA69A">> >>, << <<"\\uA723">>, <<"\\uA722">> >>,
    << <<"\\uA725">>, <<"\\uA724">> >>, << <<"\\uA727">>, <<"\\uA726">> >>,
    << <<"\\uA729">>, <<"\\uA728">> >>, << <<"\\uA72B">>, <<"\\uA72A">> >>,
    << <<"\\uA72D">>, <<"\\uA72C">> >>, << <<"\\uA72F">>, <<"\\uA72E">> >>,
    << <<"\\uA733">>, <<"\\uA732">> >>, << <<"\\uA735">>, <<"\\uA734">> >>,
    << <<"\\uA737">>, <<"\\uA736">> >>, << <<"\\uA739">>, <<"\\uA738">> >>,
    << <<"\\uA73B">>, <<"\\uA73A">> >>, << <<"\\uA73D">>, <<"\\uA73C">> >>,
    << <<"\\uA73F">>, <<"\\uA73E">> >>, << <<"\\uA741">>, <<"\\uA740">> >>,
    << <<"\\uA743">>, <<"\\uA742">> >>, << <<"\\uA745">>, <<"\\uA744">> >>,
    << <<"\\uA747">>, <<"\\uA746">> >>, << <<"\\uA749">>, <<"\\uA748">> >>,
    << <<"\\uA74B">>, <<"\\uA74A">> >>, << <<"\\uA74D">>, <<"\\uA74C">> >>,
    << <<"\\uA74F">>, <<"\\uA74E">> >>, << <<"\\uA751">>, <<"\\uA750">> >>,
    << <<"\\uA753">>, <<"\\uA752">> >>, << <<"\\uA755">>, <<"\\uA754">> >>,
    << <<"\\uA757">>, <<"\\uA756">> >>, << <<"\\uA759">>, <<"\\uA758">> >>,
    << <<"\\uA75B">>, <<"\\uA75A">> >>, << <<"\\uA75D">>, <<"\\uA75C">> >>,
    << <<"\\uA75F">>, <<"\\uA75E">> >>, << <<"\\uA761">>, <<"\\uA760">> >>,
    << <<"\\uA763">>, <<"\\uA762">> >>, << <<"\\uA765">>, <<"\\uA764">> >>,
    << <<"\\uA767">>, <<"\\uA766">> >>, << <<"\\uA769">>, <<"\\uA768">> >>,
    << <<"\\uA76B">>, <<"\\uA76A">> >>, << <<"\\uA76D">>, <<"\\uA76C">> >>,
    << <<"\\uA76F">>, <<"\\uA76E">> >>, << <<"\\uA77A">>, <<"\\uA779">> >>,
    << <<"\\uA77C">>, <<"\\uA77B">> >>, << <<"\\uA77F">>, <<"\\uA77E">> >>,
    << <<"\\uA781">>, <<"\\uA780">> >>, << <<"\\uA783">>, <<"\\uA782">> >>,
    << <<"\\uA785">>, <<"\\uA784">> >>, << <<"\\uA787">>, <<"\\uA786">> >>,
    << <<"\\uA78C">>, <<"\\uA78B">> >>, << <<"\\uA791">>, <<"\\uA790">> >>,
    << <<"\\uA793">>, <<"\\uA792">> >>, << <<"\\uA794">>, <<"\\uA7C4">> >>,
    << <<"\\uA797">>, <<"\\uA796">> >>, << <<"\\uA799">>, <<"\\uA798">> >>,
    << <<"\\uA79B">>, <<"\\uA79A">> >>, << <<"\\uA79D">>, <<"\\uA79C">> >>,
    << <<"\\uA79F">>, <<"\\uA79E">> >>, << <<"\\uA7A1">>, <<"\\uA7A0">> >>,
    << <<"\\uA7A3">>, <<"\\uA7A2">> >>, << <<"\\uA7A5">>, <<"\\uA7A4">> >>,
    << <<"\\uA7A7">>, <<"\\uA7A6">> >>, << <<"\\uA7A9">>, <<"\\uA7A8">> >>,
    << <<"\\uA7B5">>, <<"\\uA7B4">> >>, << <<"\\uA7B7">>, <<"\\uA7B6">> >>,
    << <<"\\uA7B9">>, <<"\\uA7B8">> >>, << <<"\\uA7BB">>, <<"\\uA7BA">> >>,
    << <<"\\uA7BD">>, <<"\\uA7BC">> >>, << <<"\\uA7BF">>, <<"\\uA7BE">> >>,
    << <<"\\uA7C1">>, <<"\\uA7C0">> >>, << <<"\\uA7C3">>, <<"\\uA7C2">> >>,
    << <<"\\uA7C8">>, <<"\\uA7C7">> >>, << <<"\\uA7CA">>, <<"\\uA7C9">> >>,
    << <<"\\uA7CD">>, <<"\\uA7CC">> >>, << <<"\\uA7CF">>, <<"\\uA7CE">> >>,
    << <<"\\uA7D1">>, <<"\\uA7D0">> >>, << <<"\\uA7D3">>, <<"\\uA7D2">> >>,
    << <<"\\uA7D5">>, <<"\\uA7D4">> >>, << <<"\\uA7D7">>, <<"\\uA7D6">> >>,
    << <<"\\uA7D9">>, <<"\\uA7D8">> >>, << <<"\\uA7DB">>, <<"\\uA7DA">> >>,
    << <<"\\uA7F6">>, <<"\\uA7F5">> >>, << <<"\\uAB53">>, <<"\\uA7B3">> >>,
    << <<"\\uAB70">>, <<"\\u13A0">> >>, << <<"\\uAB71">>, <<"\\u13A1">> >>,
    << <<"\\uAB72">>, <<"\\u13A2">> >>, << <<"\\uAB73">>, <<"\\u13A3">> >>,
    << <<"\\uAB74">>, <<"\\u13A4">> >>, << <<"\\uAB75">>, <<"\\u13A5">> >>,
    << <<"\\uAB76">>, <<"\\u13A6">> >>, << <<"\\uAB77">>, <<"\\u13A7">> >>,
    << <<"\\uAB78">>, <<"\\u13A8">> >>, << <<"\\uAB79">>, <<"\\u13A9">> >>,
    << <<"\\uAB7A">>, <<"\\u13AA">> >>, << <<"\\uAB7B">>, <<"\\u13AB">> >>,
    << <<"\\uAB7C">>, <<"\\u13AC">> >>, << <<"\\uAB7D">>, <<"\\u13AD">> >>,
    << <<"\\uAB7E">>, <<"\\u13AE">> >>, << <<"\\uAB7F">>, <<"\\u13AF">> >>,
    << <<"\\uAB80">>, <<"\\u13B0">> >>, << <<"\\uAB81">>, <<"\\u13B1">> >>,
    << <<"\\uAB82">>, <<"\\u13B2">> >>, << <<"\\uAB83">>, <<"\\u13B3">> >>,
    << <<"\\uAB84">>, <<"\\u13B4">> >>, << <<"\\uAB85">>, <<"\\u13B5">> >>,
    << <<"\\uAB86">>, <<"\\u13B6">> >>, << <<"\\uAB87">>, <<"\\u13B7">> >>,
    << <<"\\uAB88">>, <<"\\u13B8">> >>, << <<"\\uAB89">>, <<"\\u13B9">> >>,
    << <<"\\uAB8A">>, <<"\\u13BA">> >>, << <<"\\uAB8B">>, <<"\\u13BB">> >>,
    << <<"\\uAB8C">>, <<"\\u13BC">> >>, << <<"\\uAB8D">>, <<"\\u13BD">> >>,
    << <<"\\uAB8E">>, <<"\\u13BE">> >>, << <<"\\uAB8F">>, <<"\\u13BF">> >>,
    << <<"\\uAB90">>, <<"\\u13C0">> >>, << <<"\\uAB91">>, <<"\\u13C1">> >>,
    << <<"\\uAB92">>, <<"\\u13C2">> >>, << <<"\\uAB93">>, <<"\\u13C3">> >>,
    << <<"\\uAB94">>, <<"\\u13C4">> >>, << <<"\\uAB95">>, <<"\\u13C5">> >>,
    << <<"\\uAB96">>, <<"\\u13C6">> >>, << <<"\\uAB97">>, <<"\\u13C7">> >>,
    << <<"\\uAB98">>, <<"\\u13C8">> >>, << <<"\\uAB99">>, <<"\\u13C9">> >>,
    << <<"\\uAB9A">>, <<"\\u13CA">> >>, << <<"\\uAB9B">>, <<"\\u13CB">> >>,
    << <<"\\uAB9C">>, <<"\\u13CC">> >>, << <<"\\uAB9D">>, <<"\\u13CD">> >>,
    << <<"\\uAB9E">>, <<"\\u13CE">> >>, << <<"\\uAB9F">>, <<"\\u13CF">> >>,
    << <<"\\uABA0">>, <<"\\u13D0">> >>, << <<"\\uABA1">>, <<"\\u13D1">> >>,
    << <<"\\uABA2">>, <<"\\u13D2">> >>, << <<"\\uABA3">>, <<"\\u13D3">> >>,
    << <<"\\uABA4">>, <<"\\u13D4">> >>, << <<"\\uABA5">>, <<"\\u13D5">> >>,
    << <<"\\uABA6">>, <<"\\u13D6">> >>, << <<"\\uABA7">>, <<"\\u13D7">> >>,
    << <<"\\uABA8">>, <<"\\u13D8">> >>, << <<"\\uABA9">>, <<"\\u13D9">> >>,
    << <<"\\uABAA">>, <<"\\u13DA">> >>, << <<"\\uABAB">>, <<"\\u13DB">> >>,
    << <<"\\uABAC">>, <<"\\u13DC">> >>, << <<"\\uABAD">>, <<"\\u13DD">> >>,
    << <<"\\uABAE">>, <<"\\u13DE">> >>, << <<"\\uABAF">>, <<"\\u13DF">> >>,
    << <<"\\uABB0">>, <<"\\u13E0">> >>, << <<"\\uABB1">>, <<"\\u13E1">> >>,
    << <<"\\uABB2">>, <<"\\u13E2">> >>, << <<"\\uABB3">>, <<"\\u13E3">> >>,
    << <<"\\uABB4">>, <<"\\u13E4">> >>, << <<"\\uABB5">>, <<"\\u13E5">> >>,
    << <<"\\uABB6">>, <<"\\u13E6">> >>, << <<"\\uABB7">>, <<"\\u13E7">> >>,
    << <<"\\uABB8">>, <<"\\u13E8">> >>, << <<"\\uABB9">>, <<"\\u13E9">> >>,
    << <<"\\uABBA">>, <<"\\u13EA">> >>, << <<"\\uABBB">>, <<"\\u13EB">> >>,
    << <<"\\uABBC">>, <<"\\u13EC">> >>, << <<"\\uABBD">>, <<"\\u13ED">> >>,
    << <<"\\uABBE">>, <<"\\u13EE">> >>, << <<"\\uABBF">>, <<"\\u13EF">> >>,
    << <<"\\uFB00">>, <<"F", "F">> >>, << <<"\\uFB01">>, <<"F", "I">> >>,
    << <<"\\uFB02">>, <<"F", "L">> >>, << <<"\\uFB03">>, <<"F", "F", "I">> >>,
    << <<"\\uFB04">>, <<"F", "F", "L">> >>, << <<"\\uFB05">>, <<"S", "T">> >>,
    << <<"\\uFB06">>, <<"S", "T">> >>, << <<"\\uFB13">>, <<"\\u0544", "\\u0546">> >>,
    << <<"\\uFB14">>, <<"\\u0544", "\\u0535">> >>, << <<"\\uFB15">>, <<"\\u0544", "\\u053B">> >>,
    << <<"\\uFB16">>, <<"\\u054E", "\\u0546">> >>, << <<"\\uFB17">>, <<"\\u0544", "\\u053D">> >>,
    << <<"\\uFF41">>, <<"\\uFF21">> >>, << <<"\\uFF42">>, <<"\\uFF22">> >>,
    << <<"\\uFF43">>, <<"\\uFF23">> >>, << <<"\\uFF44">>, <<"\\uFF24">> >>,
    << <<"\\uFF45">>, <<"\\uFF25">> >>, << <<"\\uFF46">>, <<"\\uFF26">> >>,
    << <<"\\uFF47">>, <<"\\uFF27">> >>, << <<"\\uFF48">>, <<"\\uFF28">> >>,
    << <<"\\uFF49">>, <<"\\uFF29">> >>, << <<"\\uFF4A">>, <<"\\uFF2A">> >>,
    << <<"\\uFF4B">>, <<"\\uFF2B">> >>, << <<"\\uFF4C">>, <<"\\uFF2C">> >>,
    << <<"\\uFF4D">>, <<"\\uFF2D">> >>, << <<"\\uFF4E">>, <<"\\uFF2E">> >>,
    << <<"\\uFF4F">>, <<"\\uFF2F">> >>, << <<"\\uFF50">>, <<"\\uFF30">> >>,
    << <<"\\uFF51">>, <<"\\uFF31">> >>, << <<"\\uFF52">>, <<"\\uFF32">> >>,
    << <<"\\uFF53">>, <<"\\uFF33">> >>, << <<"\\uFF54">>, <<"\\uFF34">> >>,
    << <<"\\uFF55">>, <<"\\uFF35">> >>, << <<"\\uFF56">>, <<"\\uFF36">> >>,
    << <<"\\uFF57">>, <<"\\uFF37">> >>, << <<"\\uFF58">>, <<"\\uFF38">> >>,
    << <<"\\uFF59">>, <<"\\uFF39">> >>, << <<"\\uFF5A">>, <<"\\uFF3A">> >>,
    << <<"\\uD801", "\\uDC28">>, <<"\\uD801", "\\uDC00">> >>,
    << <<"\\uD801", "\\uDC29">>, <<"\\uD801", "\\uDC01">> >>,
    << <<"\\uD801", "\\uDC2A">>, <<"\\uD801", "\\uDC02">> >>,
    << <<"\\uD801", "\\uDC2B">>, <<"\\uD801", "\\uDC03">> >>,
    << <<"\\uD801", "\\uDC2C">>, <<"\\uD801", "\\uDC04">> >>,
    << <<"\\uD801", "\\uDC2D">>, <<"\\uD801", "\\uDC05">> >>,
    << <<"\\uD801", "\\uDC2E">>, <<"\\uD801", "\\uDC06">> >>,
    << <<"\\uD801", "\\uDC2F">>, <<"\\uD801", "\\uDC07">> >>,
    << <<"\\uD801", "\\uDC30">>, <<"\\uD801", "\\uDC08">> >>,
    << <<"\\uD801", "\\uDC31">>, <<"\\uD801", "\\uDC09">> >>,
    << <<"\\uD801", "\\uDC32">>, <<"\\uD801", "\\uDC0A">> >>,
    << <<"\\uD801", "\\uDC33">>, <<"\\uD801", "\\uDC0B">> >>,
    << <<"\\uD801", "\\uDC34">>, <<"\\uD801", "\\uDC0C">> >>,
    << <<"\\uD801", "\\uDC35">>, <<"\\uD801", "\\uDC0D">> >>,
    << <<"\\uD801", "\\uDC36">>, <<"\\uD801", "\\uDC0E">> >>,
    << <<"\\uD801", "\\uDC37">>, <<"\\uD801", "\\uDC0F">> >>,
    << <<"\\uD801", "\\uDC38">>, <<"\\uD801", "\\uDC10">> >>,
    << <<"\\uD801", "\\uDC39">>, <<"\\uD801", "\\uDC11">> >>,
    << <<"\\uD801", "\\uDC3A">>, <<"\\uD801", "\\uDC12">> >>,
    << <<"\\uD801", "\\uDC3B">>, <<"\\uD801", "\\uDC13">> >>,
    << <<"\\uD801", "\\uDC3C">>, <<"\\uD801", "\\uDC14">> >>,
    << <<"\\uD801", "\\uDC3D">>, <<"\\uD801", "\\uDC15">> >>,
    << <<"\\uD801", "\\uDC3E">>, <<"\\uD801", "\\uDC16">> >>,
    << <<"\\uD801", "\\uDC3F">>, <<"\\uD801", "\\uDC17">> >>,
    << <<"\\uD801", "\\uDC40">>, <<"\\uD801", "\\uDC18">> >>,
    << <<"\\uD801", "\\uDC41">>, <<"\\uD801", "\\uDC19">> >>,
    << <<"\\uD801", "\\uDC42">>, <<"\\uD801", "\\uDC1A">> >>,
    << <<"\\uD801", "\\uDC43">>, <<"\\uD801", "\\uDC1B">> >>,
    << <<"\\uD801", "\\uDC44">>, <<"\\uD801", "\\uDC1C">> >>,
    << <<"\\uD801", "\\uDC45">>, <<"\\uD801", "\\uDC1D">> >>,
    << <<"\\uD801", "\\uDC46">>, <<"\\uD801", "\\uDC1E">> >>,
    << <<"\\uD801", "\\uDC47">>, <<"\\uD801", "\\uDC1F">> >>,
    << <<"\\uD801", "\\uDC48">>, <<"\\uD801", "\\uDC20">> >>,
    << <<"\\uD801", "\\uDC49">>, <<"\\uD801", "\\uDC21">> >>,
    << <<"\\uD801", "\\uDC4A">>, <<"\\uD801", "\\uDC22">> >>,
    << <<"\\uD801", "\\uDC4B">>, <<"\\uD801", "\\uDC23">> >>,
    << <<"\\uD801", "\\uDC4C">>, <<"\\uD801", "\\uDC24">> >>,
    << <<"\\uD801", "\\uDC4D">>, <<"\\uD801", "\\uDC25">> >>,
    << <<"\\uD801", "\\uDC4E">>, <<"\\uD801", "\\uDC26">> >>,
    << <<"\\uD801", "\\uDC4F">>, <<"\\uD801", "\\uDC27">> >>,
    << <<"\\uD801", "\\uDCD8">>, <<"\\uD801", "\\uDCB0">> >>,
    << <<"\\uD801", "\\uDCD9">>, <<"\\uD801", "\\uDCB1">> >>,
    << <<"\\uD801", "\\uDCDA">>, <<"\\uD801", "\\uDCB2">> >>,
    << <<"\\uD801", "\\uDCDB">>, <<"\\uD801", "\\uDCB3">> >>,
    << <<"\\uD801", "\\uDCDC">>, <<"\\uD801", "\\uDCB4">> >>,
    << <<"\\uD801", "\\uDCDD">>, <<"\\uD801", "\\uDCB5">> >>,
    << <<"\\uD801", "\\uDCDE">>, <<"\\uD801", "\\uDCB6">> >>,
    << <<"\\uD801", "\\uDCDF">>, <<"\\uD801", "\\uDCB7">> >>,
    << <<"\\uD801", "\\uDCE0">>, <<"\\uD801", "\\uDCB8">> >>,
    << <<"\\uD801", "\\uDCE1">>, <<"\\uD801", "\\uDCB9">> >>,
    << <<"\\uD801", "\\uDCE2">>, <<"\\uD801", "\\uDCBA">> >>,
    << <<"\\uD801", "\\uDCE3">>, <<"\\uD801", "\\uDCBB">> >>,
    << <<"\\uD801", "\\uDCE4">>, <<"\\uD801", "\\uDCBC">> >>,
    << <<"\\uD801", "\\uDCE5">>, <<"\\uD801", "\\uDCBD">> >>,
    << <<"\\uD801", "\\uDCE6">>, <<"\\uD801", "\\uDCBE">> >>,
    << <<"\\uD801", "\\uDCE7">>, <<"\\uD801", "\\uDCBF">> >>,
    << <<"\\uD801", "\\uDCE8">>, <<"\\uD801", "\\uDCC0">> >>,
    << <<"\\uD801", "\\uDCE9">>, <<"\\uD801", "\\uDCC1">> >>,
    << <<"\\uD801", "\\uDCEA">>, <<"\\uD801", "\\uDCC2">> >>,
    << <<"\\uD801", "\\uDCEB">>, <<"\\uD801", "\\uDCC3">> >>,
    << <<"\\uD801", "\\uDCEC">>, <<"\\uD801", "\\uDCC4">> >>,
    << <<"\\uD801", "\\uDCED">>, <<"\\uD801", "\\uDCC5">> >>,
    << <<"\\uD801", "\\uDCEE">>, <<"\\uD801", "\\uDCC6">> >>,
    << <<"\\uD801", "\\uDCEF">>, <<"\\uD801", "\\uDCC7">> >>,
    << <<"\\uD801", "\\uDCF0">>, <<"\\uD801", "\\uDCC8">> >>,
    << <<"\\uD801", "\\uDCF1">>, <<"\\uD801", "\\uDCC9">> >>,
    << <<"\\uD801", "\\uDCF2">>, <<"\\uD801", "\\uDCCA">> >>,
    << <<"\\uD801", "\\uDCF3">>, <<"\\uD801", "\\uDCCB">> >>,
    << <<"\\uD801", "\\uDCF4">>, <<"\\uD801", "\\uDCCC">> >>,
    << <<"\\uD801", "\\uDCF5">>, <<"\\uD801", "\\uDCCD">> >>,
    << <<"\\uD801", "\\uDCF6">>, <<"\\uD801", "\\uDCCE">> >>,
    << <<"\\uD801", "\\uDCF7">>, <<"\\uD801", "\\uDCCF">> >>,
    << <<"\\uD801", "\\uDCF8">>, <<"\\uD801", "\\uDCD0">> >>,
    << <<"\\uD801", "\\uDCF9">>, <<"\\uD801", "\\uDCD1">> >>,
    << <<"\\uD801", "\\uDCFA">>, <<"\\uD801", "\\uDCD2">> >>,
    << <<"\\uD801", "\\uDCFB">>, <<"\\uD801", "\\uDCD3">> >>,
    << <<"\\uD801", "\\uDD97">>, <<"\\uD801", "\\uDD70">> >>,
    << <<"\\uD801", "\\uDD98">>, <<"\\uD801", "\\uDD71">> >>,
    << <<"\\uD801", "\\uDD99">>, <<"\\uD801", "\\uDD72">> >>,
    << <<"\\uD801", "\\uDD9A">>, <<"\\uD801", "\\uDD73">> >>,
    << <<"\\uD801", "\\uDD9B">>, <<"\\uD801", "\\uDD74">> >>,
    << <<"\\uD801", "\\uDD9C">>, <<"\\uD801", "\\uDD75">> >>,
    << <<"\\uD801", "\\uDD9D">>, <<"\\uD801", "\\uDD76">> >>,
    << <<"\\uD801", "\\uDD9E">>, <<"\\uD801", "\\uDD77">> >>,
    << <<"\\uD801", "\\uDD9F">>, <<"\\uD801", "\\uDD78">> >>,
    << <<"\\uD801", "\\uDDA0">>, <<"\\uD801", "\\uDD79">> >>,
    << <<"\\uD801", "\\uDDA1">>, <<"\\uD801", "\\uDD7A">> >>,
    << <<"\\uD801", "\\uDDA3">>, <<"\\uD801", "\\uDD7C">> >>,
    << <<"\\uD801", "\\uDDA4">>, <<"\\uD801", "\\uDD7D">> >>,
    << <<"\\uD801", "\\uDDA5">>, <<"\\uD801", "\\uDD7E">> >>,
    << <<"\\uD801", "\\uDDA6">>, <<"\\uD801", "\\uDD7F">> >>,
    << <<"\\uD801", "\\uDDA7">>, <<"\\uD801", "\\uDD80">> >>,
    << <<"\\uD801", "\\uDDA8">>, <<"\\uD801", "\\uDD81">> >>,
    << <<"\\uD801", "\\uDDA9">>, <<"\\uD801", "\\uDD82">> >>,
    << <<"\\uD801", "\\uDDAA">>, <<"\\uD801", "\\uDD83">> >>,
    << <<"\\uD801", "\\uDDAB">>, <<"\\uD801", "\\uDD84">> >>,
    << <<"\\uD801", "\\uDDAC">>, <<"\\uD801", "\\uDD85">> >>,
    << <<"\\uD801", "\\uDDAD">>, <<"\\uD801", "\\uDD86">> >>,
    << <<"\\uD801", "\\uDDAE">>, <<"\\uD801", "\\uDD87">> >>,
    << <<"\\uD801", "\\uDDAF">>, <<"\\uD801", "\\uDD88">> >>,
    << <<"\\uD801", "\\uDDB0">>, <<"\\uD801", "\\uDD89">> >>,
    << <<"\\uD801", "\\uDDB1">>, <<"\\uD801", "\\uDD8A">> >>,
    << <<"\\uD801", "\\uDDB3">>, <<"\\uD801", "\\uDD8C">> >>,
    << <<"\\uD801", "\\uDDB4">>, <<"\\uD801", "\\uDD8D">> >>,
    << <<"\\uD801", "\\uDDB5">>, <<"\\uD801", "\\uDD8E">> >>,
    << <<"\\uD801", "\\uDDB6">>, <<"\\uD801", "\\uDD8F">> >>,
    << <<"\\uD801", "\\uDDB7">>, <<"\\uD801", "\\uDD90">> >>,
    << <<"\\uD801", "\\uDDB8">>, <<"\\uD801", "\\uDD91">> >>,
    << <<"\\uD801", "\\uDDB9">>, <<"\\uD801", "\\uDD92">> >>,
    << <<"\\uD801", "\\uDDBB">>, <<"\\uD801", "\\uDD94">> >>,
    << <<"\\uD801", "\\uDDBC">>, <<"\\uD801", "\\uDD95">> >>,
    << <<"\\uD803", "\\uDCC0">>, <<"\\uD803", "\\uDC80">> >>,
    << <<"\\uD803", "\\uDCC1">>, <<"\\uD803", "\\uDC81">> >>,
    << <<"\\uD803", "\\uDCC2">>, <<"\\uD803", "\\uDC82">> >>,
    << <<"\\uD803", "\\uDCC3">>, <<"\\uD803", "\\uDC83">> >>,
    << <<"\\uD803", "\\uDCC4">>, <<"\\uD803", "\\uDC84">> >>,
    << <<"\\uD803", "\\uDCC5">>, <<"\\uD803", "\\uDC85">> >>,
    << <<"\\uD803", "\\uDCC6">>, <<"\\uD803", "\\uDC86">> >>,
    << <<"\\uD803", "\\uDCC7">>, <<"\\uD803", "\\uDC87">> >>,
    << <<"\\uD803", "\\uDCC8">>, <<"\\uD803", "\\uDC88">> >>,
    << <<"\\uD803", "\\uDCC9">>, <<"\\uD803", "\\uDC89">> >>,
    << <<"\\uD803", "\\uDCCA">>, <<"\\uD803", "\\uDC8A">> >>,
    << <<"\\uD803", "\\uDCCB">>, <<"\\uD803", "\\uDC8B">> >>,
    << <<"\\uD803", "\\uDCCC">>, <<"\\uD803", "\\uDC8C">> >>,
    << <<"\\uD803", "\\uDCCD">>, <<"\\uD803", "\\uDC8D">> >>,
    << <<"\\uD803", "\\uDCCE">>, <<"\\uD803", "\\uDC8E">> >>,
    << <<"\\uD803", "\\uDCCF">>, <<"\\uD803", "\\uDC8F">> >>,
    << <<"\\uD803", "\\uDCD0">>, <<"\\uD803", "\\uDC90">> >>,
    << <<"\\uD803", "\\uDCD1">>, <<"\\uD803", "\\uDC91">> >>,
    << <<"\\uD803", "\\uDCD2">>, <<"\\uD803", "\\uDC92">> >>,
    << <<"\\uD803", "\\uDCD3">>, <<"\\uD803", "\\uDC93">> >>,
    << <<"\\uD803", "\\uDCD4">>, <<"\\uD803", "\\uDC94">> >>,
    << <<"\\uD803", "\\uDCD5">>, <<"\\uD803", "\\uDC95">> >>,
    << <<"\\uD803", "\\uDCD6">>, <<"\\uD803", "\\uDC96">> >>,
    << <<"\\uD803", "\\uDCD7">>, <<"\\uD803", "\\uDC97">> >>,
    << <<"\\uD803", "\\uDCD8">>, <<"\\uD803", "\\uDC98">> >>,
    << <<"\\uD803", "\\uDCD9">>, <<"\\uD803", "\\uDC99">> >>,
    << <<"\\uD803", "\\uDCDA">>, <<"\\uD803", "\\uDC9A">> >>,
    << <<"\\uD803", "\\uDCDB">>, <<"\\uD803", "\\uDC9B">> >>,
    << <<"\\uD803", "\\uDCDC">>, <<"\\uD803", "\\uDC9C">> >>,
    << <<"\\uD803", "\\uDCDD">>, <<"\\uD803", "\\uDC9D">> >>,
    << <<"\\uD803", "\\uDCDE">>, <<"\\uD803", "\\uDC9E">> >>,
    << <<"\\uD803", "\\uDCDF">>, <<"\\uD803", "\\uDC9F">> >>,
    << <<"\\uD803", "\\uDCE0">>, <<"\\uD803", "\\uDCA0">> >>,
    << <<"\\uD803", "\\uDCE1">>, <<"\\uD803", "\\uDCA1">> >>,
    << <<"\\uD803", "\\uDCE2">>, <<"\\uD803", "\\uDCA2">> >>,
    << <<"\\uD803", "\\uDCE3">>, <<"\\uD803", "\\uDCA3">> >>,
    << <<"\\uD803", "\\uDCE4">>, <<"\\uD803", "\\uDCA4">> >>,
    << <<"\\uD803", "\\uDCE5">>, <<"\\uD803", "\\uDCA5">> >>,
    << <<"\\uD803", "\\uDCE6">>, <<"\\uD803", "\\uDCA6">> >>,
    << <<"\\uD803", "\\uDCE7">>, <<"\\uD803", "\\uDCA7">> >>,
    << <<"\\uD803", "\\uDCE8">>, <<"\\uD803", "\\uDCA8">> >>,
    << <<"\\uD803", "\\uDCE9">>, <<"\\uD803", "\\uDCA9">> >>,
    << <<"\\uD803", "\\uDCEA">>, <<"\\uD803", "\\uDCAA">> >>,
    << <<"\\uD803", "\\uDCEB">>, <<"\\uD803", "\\uDCAB">> >>,
    << <<"\\uD803", "\\uDCEC">>, <<"\\uD803", "\\uDCAC">> >>,
    << <<"\\uD803", "\\uDCED">>, <<"\\uD803", "\\uDCAD">> >>,
    << <<"\\uD803", "\\uDCEE">>, <<"\\uD803", "\\uDCAE">> >>,
    << <<"\\uD803", "\\uDCEF">>, <<"\\uD803", "\\uDCAF">> >>,
    << <<"\\uD803", "\\uDCF0">>, <<"\\uD803", "\\uDCB0">> >>,
    << <<"\\uD803", "\\uDCF1">>, <<"\\uD803", "\\uDCB1">> >>,
    << <<"\\uD803", "\\uDCF2">>, <<"\\uD803", "\\uDCB2">> >>,
    << <<"\\uD803", "\\uDD70">>, <<"\\uD803", "\\uDD50">> >>,
    << <<"\\uD803", "\\uDD71">>, <<"\\uD803", "\\uDD51">> >>,
    << <<"\\uD803", "\\uDD72">>, <<"\\uD803", "\\uDD52">> >>,
    << <<"\\uD803", "\\uDD73">>, <<"\\uD803", "\\uDD53">> >>,
    << <<"\\uD803", "\\uDD74">>, <<"\\uD803", "\\uDD54">> >>,
    << <<"\\uD803", "\\uDD75">>, <<"\\uD803", "\\uDD55">> >>,
    << <<"\\uD803", "\\uDD76">>, <<"\\uD803", "\\uDD56">> >>,
    << <<"\\uD803", "\\uDD77">>, <<"\\uD803", "\\uDD57">> >>,
    << <<"\\uD803", "\\uDD78">>, <<"\\uD803", "\\uDD58">> >>,
    << <<"\\uD803", "\\uDD79">>, <<"\\uD803", "\\uDD59">> >>,
    << <<"\\uD803", "\\uDD7A">>, <<"\\uD803", "\\uDD5A">> >>,
    << <<"\\uD803", "\\uDD7B">>, <<"\\uD803", "\\uDD5B">> >>,
    << <<"\\uD803", "\\uDD7C">>, <<"\\uD803", "\\uDD5C">> >>,
    << <<"\\uD803", "\\uDD7D">>, <<"\\uD803", "\\uDD5D">> >>,
    << <<"\\uD803", "\\uDD7E">>, <<"\\uD803", "\\uDD5E">> >>,
    << <<"\\uD803", "\\uDD7F">>, <<"\\uD803", "\\uDD5F">> >>,
    << <<"\\uD803", "\\uDD80">>, <<"\\uD803", "\\uDD60">> >>,
    << <<"\\uD803", "\\uDD81">>, <<"\\uD803", "\\uDD61">> >>,
    << <<"\\uD803", "\\uDD82">>, <<"\\uD803", "\\uDD62">> >>,
    << <<"\\uD803", "\\uDD83">>, <<"\\uD803", "\\uDD63">> >>,
    << <<"\\uD803", "\\uDD84">>, <<"\\uD803", "\\uDD64">> >>,
    << <<"\\uD803", "\\uDD85">>, <<"\\uD803", "\\uDD65">> >>,
    << <<"\\uD806", "\\uDCC0">>, <<"\\uD806", "\\uDCA0">> >>,
    << <<"\\uD806", "\\uDCC1">>, <<"\\uD806", "\\uDCA1">> >>,
    << <<"\\uD806", "\\uDCC2">>, <<"\\uD806", "\\uDCA2">> >>,
    << <<"\\uD806", "\\uDCC3">>, <<"\\uD806", "\\uDCA3">> >>,
    << <<"\\uD806", "\\uDCC4">>, <<"\\uD806", "\\uDCA4">> >>,
    << <<"\\uD806", "\\uDCC5">>, <<"\\uD806", "\\uDCA5">> >>,
    << <<"\\uD806", "\\uDCC6">>, <<"\\uD806", "\\uDCA6">> >>,
    << <<"\\uD806", "\\uDCC7">>, <<"\\uD806", "\\uDCA7">> >>,
    << <<"\\uD806", "\\uDCC8">>, <<"\\uD806", "\\uDCA8">> >>,
    << <<"\\uD806", "\\uDCC9">>, <<"\\uD806", "\\uDCA9">> >>,
    << <<"\\uD806", "\\uDCCA">>, <<"\\uD806", "\\uDCAA">> >>,
    << <<"\\uD806", "\\uDCCB">>, <<"\\uD806", "\\uDCAB">> >>,
    << <<"\\uD806", "\\uDCCC">>, <<"\\uD806", "\\uDCAC">> >>,
    << <<"\\uD806", "\\uDCCD">>, <<"\\uD806", "\\uDCAD">> >>,
    << <<"\\uD806", "\\uDCCE">>, <<"\\uD806", "\\uDCAE">> >>,
    << <<"\\uD806", "\\uDCCF">>, <<"\\uD806", "\\uDCAF">> >>,
    << <<"\\uD806", "\\uDCD0">>, <<"\\uD806", "\\uDCB0">> >>,
    << <<"\\uD806", "\\uDCD1">>, <<"\\uD806", "\\uDCB1">> >>,
    << <<"\\uD806", "\\uDCD2">>, <<"\\uD806", "\\uDCB2">> >>,
    << <<"\\uD806", "\\uDCD3">>, <<"\\uD806", "\\uDCB3">> >>,
    << <<"\\uD806", "\\uDCD4">>, <<"\\uD806", "\\uDCB4">> >>,
    << <<"\\uD806", "\\uDCD5">>, <<"\\uD806", "\\uDCB5">> >>,
    << <<"\\uD806", "\\uDCD6">>, <<"\\uD806", "\\uDCB6">> >>,
    << <<"\\uD806", "\\uDCD7">>, <<"\\uD806", "\\uDCB7">> >>,
    << <<"\\uD806", "\\uDCD8">>, <<"\\uD806", "\\uDCB8">> >>,
    << <<"\\uD806", "\\uDCD9">>, <<"\\uD806", "\\uDCB9">> >>,
    << <<"\\uD806", "\\uDCDA">>, <<"\\uD806", "\\uDCBA">> >>,
    << <<"\\uD806", "\\uDCDB">>, <<"\\uD806", "\\uDCBB">> >>,
    << <<"\\uD806", "\\uDCDC">>, <<"\\uD806", "\\uDCBC">> >>,
    << <<"\\uD806", "\\uDCDD">>, <<"\\uD806", "\\uDCBD">> >>,
    << <<"\\uD806", "\\uDCDE">>, <<"\\uD806", "\\uDCBE">> >>,
    << <<"\\uD806", "\\uDCDF">>, <<"\\uD806", "\\uDCBF">> >>,
    << <<"\\uD81B", "\\uDE60">>, <<"\\uD81B", "\\uDE40">> >>,
    << <<"\\uD81B", "\\uDE61">>, <<"\\uD81B", "\\uDE41">> >>,
    << <<"\\uD81B", "\\uDE62">>, <<"\\uD81B", "\\uDE42">> >>,
    << <<"\\uD81B", "\\uDE63">>, <<"\\uD81B", "\\uDE43">> >>,
    << <<"\\uD81B", "\\uDE64">>, <<"\\uD81B", "\\uDE44">> >>,
    << <<"\\uD81B", "\\uDE65">>, <<"\\uD81B", "\\uDE45">> >>,
    << <<"\\uD81B", "\\uDE66">>, <<"\\uD81B", "\\uDE46">> >>,
    << <<"\\uD81B", "\\uDE67">>, <<"\\uD81B", "\\uDE47">> >>,
    << <<"\\uD81B", "\\uDE68">>, <<"\\uD81B", "\\uDE48">> >>,
    << <<"\\uD81B", "\\uDE69">>, <<"\\uD81B", "\\uDE49">> >>,
    << <<"\\uD81B", "\\uDE6A">>, <<"\\uD81B", "\\uDE4A">> >>,
    << <<"\\uD81B", "\\uDE6B">>, <<"\\uD81B", "\\uDE4B">> >>,
    << <<"\\uD81B", "\\uDE6C">>, <<"\\uD81B", "\\uDE4C">> >>,
    << <<"\\uD81B", "\\uDE6D">>, <<"\\uD81B", "\\uDE4D">> >>,
    << <<"\\uD81B", "\\uDE6E">>, <<"\\uD81B", "\\uDE4E">> >>,
    << <<"\\uD81B", "\\uDE6F">>, <<"\\uD81B", "\\uDE4F">> >>,
    << <<"\\uD81B", "\\uDE70">>, <<"\\uD81B", "\\uDE50">> >>,
    << <<"\\uD81B", "\\uDE71">>, <<"\\uD81B", "\\uDE51">> >>,
    << <<"\\uD81B", "\\uDE72">>, <<"\\uD81B", "\\uDE52">> >>,
    << <<"\\uD81B", "\\uDE73">>, <<"\\uD81B", "\\uDE53">> >>,
    << <<"\\uD81B", "\\uDE74">>, <<"\\uD81B", "\\uDE54">> >>,
    << <<"\\uD81B", "\\uDE75">>, <<"\\uD81B", "\\uDE55">> >>,
    << <<"\\uD81B", "\\uDE76">>, <<"\\uD81B", "\\uDE56">> >>,
    << <<"\\uD81B", "\\uDE77">>, <<"\\uD81B", "\\uDE57">> >>,
    << <<"\\uD81B", "\\uDE78">>, <<"\\uD81B", "\\uDE58">> >>,
    << <<"\\uD81B", "\\uDE79">>, <<"\\uD81B", "\\uDE59">> >>,
    << <<"\\uD81B", "\\uDE7A">>, <<"\\uD81B", "\\uDE5A">> >>,
    << <<"\\uD81B", "\\uDE7B">>, <<"\\uD81B", "\\uDE5B">> >>,
    << <<"\\uD81B", "\\uDE7C">>, <<"\\uD81B", "\\uDE5C">> >>,
    << <<"\\uD81B", "\\uDE7D">>, <<"\\uD81B", "\\uDE5D">> >>,
    << <<"\\uD81B", "\\uDE7E">>, <<"\\uD81B", "\\uDE5E">> >>,
    << <<"\\uD81B", "\\uDE7F">>, <<"\\uD81B", "\\uDE5F">> >>,
    << <<"\\uD81B", "\\uDEBB">>, <<"\\uD81B", "\\uDEA0">> >>,
    << <<"\\uD81B", "\\uDEBC">>, <<"\\uD81B", "\\uDEA1">> >>,
    << <<"\\uD81B", "\\uDEBD">>, <<"\\uD81B", "\\uDEA2">> >>,
    << <<"\\uD81B", "\\uDEBE">>, <<"\\uD81B", "\\uDEA3">> >>,
    << <<"\\uD81B", "\\uDEBF">>, <<"\\uD81B", "\\uDEA4">> >>,
    << <<"\\uD81B", "\\uDEC0">>, <<"\\uD81B", "\\uDEA5">> >>,
    << <<"\\uD81B", "\\uDEC1">>, <<"\\uD81B", "\\uDEA6">> >>,
    << <<"\\uD81B", "\\uDEC2">>, <<"\\uD81B", "\\uDEA7">> >>,
    << <<"\\uD81B", "\\uDEC3">>, <<"\\uD81B", "\\uDEA8">> >>,
    << <<"\\uD81B", "\\uDEC4">>, <<"\\uD81B", "\\uDEA9">> >>,
    << <<"\\uD81B", "\\uDEC5">>, <<"\\uD81B", "\\uDEAA">> >>,
    << <<"\\uD81B", "\\uDEC6">>, <<"\\uD81B", "\\uDEAB">> >>,
    << <<"\\uD81B", "\\uDEC7">>, <<"\\uD81B", "\\uDEAC">> >>,
    << <<"\\uD81B", "\\uDEC8">>, <<"\\uD81B", "\\uDEAD">> >>,
    << <<"\\uD81B", "\\uDEC9">>, <<"\\uD81B", "\\uDEAE">> >>,
    << <<"\\uD81B", "\\uDECA">>, <<"\\uD81B", "\\uDEAF">> >>,
    << <<"\\uD81B", "\\uDECB">>, <<"\\uD81B", "\\uDEB0">> >>,
    << <<"\\uD81B", "\\uDECC">>, <<"\\uD81B", "\\uDEB1">> >>,
    << <<"\\uD81B", "\\uDECD">>, <<"\\uD81B", "\\uDEB2">> >>,
    << <<"\\uD81B", "\\uDECE">>, <<"\\uD81B", "\\uDEB3">> >>,
    << <<"\\uD81B", "\\uDECF">>, <<"\\uD81B", "\\uDEB4">> >>,
    << <<"\\uD81B", "\\uDED0">>, <<"\\uD81B", "\\uDEB5">> >>,
    << <<"\\uD81B", "\\uDED1">>, <<"\\uD81B", "\\uDEB6">> >>,
    << <<"\\uD81B", "\\uDED2">>, <<"\\uD81B", "\\uDEB7">> >>,
    << <<"\\uD81B", "\\uDED3">>, <<"\\uD81B", "\\uDEB8">> >>,
    << <<"\\uD83A", "\\uDD22">>, <<"\\uD83A", "\\uDD00">> >>,
    << <<"\\uD83A", "\\uDD23">>, <<"\\uD83A", "\\uDD01">> >>,
    << <<"\\uD83A", "\\uDD24">>, <<"\\uD83A", "\\uDD02">> >>,
    << <<"\\uD83A", "\\uDD25">>, <<"\\uD83A", "\\uDD03">> >>,
    << <<"\\uD83A", "\\uDD26">>, <<"\\uD83A", "\\uDD04">> >>,
    << <<"\\uD83A", "\\uDD27">>, <<"\\uD83A", "\\uDD05">> >>,
    << <<"\\uD83A", "\\uDD28">>, <<"\\uD83A", "\\uDD06">> >>,
    << <<"\\uD83A", "\\uDD29">>, <<"\\uD83A", "\\uDD07">> >>,
    << <<"\\uD83A", "\\uDD2A">>, <<"\\uD83A", "\\uDD08">> >>,
    << <<"\\uD83A", "\\uDD2B">>, <<"\\uD83A", "\\uDD09">> >>,
    << <<"\\uD83A", "\\uDD2C">>, <<"\\uD83A", "\\uDD0A">> >>,
    << <<"\\uD83A", "\\uDD2D">>, <<"\\uD83A", "\\uDD0B">> >>,
    << <<"\\uD83A", "\\uDD2E">>, <<"\\uD83A", "\\uDD0C">> >>,
    << <<"\\uD83A", "\\uDD2F">>, <<"\\uD83A", "\\uDD0D">> >>,
    << <<"\\uD83A", "\\uDD30">>, <<"\\uD83A", "\\uDD0E">> >>,
    << <<"\\uD83A", "\\uDD31">>, <<"\\uD83A", "\\uDD0F">> >>,
    << <<"\\uD83A", "\\uDD32">>, <<"\\uD83A", "\\uDD10">> >>,
    << <<"\\uD83A", "\\uDD33">>, <<"\\uD83A", "\\uDD11">> >>,
    << <<"\\uD83A", "\\uDD34">>, <<"\\uD83A", "\\uDD12">> >>,
    << <<"\\uD83A", "\\uDD35">>, <<"\\uD83A", "\\uDD13">> >>,
    << <<"\\uD83A", "\\uDD36">>, <<"\\uD83A", "\\uDD14">> >>,
    << <<"\\uD83A", "\\uDD37">>, <<"\\uD83A", "\\uDD15">> >>,
    << <<"\\uD83A", "\\uDD38">>, <<"\\uD83A", "\\uDD16">> >>,
    << <<"\\uD83A", "\\uDD39">>, <<"\\uD83A", "\\uDD17">> >>,
    << <<"\\uD83A", "\\uDD3A">>, <<"\\uD83A", "\\uDD18">> >>,
    << <<"\\uD83A", "\\uDD3B">>, <<"\\uD83A", "\\uDD19">> >>,
    << <<"\\uD83A", "\\uDD3C">>, <<"\\uD83A", "\\uDD1A">> >>,
    << <<"\\uD83A", "\\uDD3D">>, <<"\\uD83A", "\\uDD1B">> >>,
    << <<"\\uD83A", "\\uDD3E">>, <<"\\uD83A", "\\uDD1C">> >>,
    << <<"\\uD83A", "\\uDD3F">>, <<"\\uD83A", "\\uDD1D">> >>,
    << <<"\\uD83A", "\\uDD40">>, <<"\\uD83A", "\\uDD1E">> >>,
    << <<"\\uD83A", "\\uDD41">>, <<"\\uD83A", "\\uDD1F">> >>,
    << <<"\\uD83A", "\\uDD42">>, <<"\\uD83A", "\\uDD20">> >>,
    << <<"\\uD83A", "\\uDD43">>, <<"\\uD83A", "\\uDD21">> >> }

\* the characters outside ASCII that toUpperCase changes
Cased == { p[1] : p \in UpperCaseForms }

\* the upper-case form of the character c, a sequence of one code unit or of
\* the two code units of a surrogate pair
toUpperCaseOf(c) ==
  IF Len(c) = 1 /\ \E k \in DOMAIN LowerCase : LowerCase[k] = c[1]
    THEN << UpperCase[CHOOSE k \in DOMAIN LowerCase : LowerCase[k] = c[1]] >>
  ELSE IF c \in Cased THEN (CHOOSE p \in UpperCaseForms : p[1] = c)[2]
  ELSE c

\* String.prototype.toUpperCase: character by character
RECURSIVE toUpperCase(_)
toUpperCase(s) ==
  IF s = << >> THEN << >>
  ELSE LET n == IF Len(s) >= 2 /\ SubSeq(s, 1, 2) \in Cased THEN 2 ELSE 1
       IN  toUpperCaseOf(SubSeq(s, 1, n)) \o toUpperCase(SubSeq(s, n + 1, Len(s)))

(***************************************************************************)
(* GeolocationService: postal-code formats                                 *)
(***************************************************************************)
\* whitespace characters typed into an example
MaxSpaces == 2
\* length of the codes typed by hand
MaxTyped == 6

Digits == { "0", "1", "2", "3", "4", "5", "6", "7", "8", "9" }
UpperLetters == { UpperCase[i] : i \in DOMAIN UpperCase }

\* code.replace(/\s/g, '')
RemoveWhitespace(code) == SelectSeq(code, LAMBDA c : c \notin Whitespace)

AllIn(s, from, to, class) == \A i \in from..to : s[i] \in class

\* the regular expressions of validatePostalCodeFormat, by country key
patterns(key, s) ==
  CASE key = <<"C", "L">> -> Len(s) = 7 /\ AllIn(s, 1, 7, Digits)
    [] key = <<"A", "R">> ->
         /\ Len(s) = 8
         /\ s[1] \in UpperLetters
         /\ AllIn(s, 2, 5, Digits)
         /\ AllIn(s, 6, 8, UpperLetters)
    [] key = <<"M", "X">> -> Len(s) = 5 /\ AllIn(s, 1, 5, Digits)
    [] key = <<"E", "S">> -> Len(s) = 5 /\ AllIn(s, 1, 5, Digits)
    [] key = <<"B", "R">> ->
         \/ Len(s) = 8 /\ AllIn(s, 1, 8, Digits)
         \/ /\ Len(s) = 9
            /\ AllIn(s, 1, 5, Digits)
            /\ s[6] = "-"
            /\ AllIn(s, 7, 9, Digits)

PatternKeys == { <<"C", "L">>, <<"A", "R">>, <<"M", "X">>, <<"E", "S">>, <<"B", "R">> }

\* variant of validatePostalCodeFormat that tests the code as typed
validatePostalCodeFormat_AsTyped(code, country) ==
  IF toUpperCase(country) \in PatternKeys
    THEN patterns(toUpperCase(country), code)
    ELSE TRUE

validatePostalCodeFormat(code, country) ==
  IF toUpperCase(country) \in PatternKeys
    THEN patterns(toUpperCase(country), RemoveWhitespace(code))
    ELSE TRUE

getPostalCodeExample(country) ==
  LET key == toUpperCase(country)
  IN  CASE key = <<"C", "L">> -> << "7", "5", "0", "0", "0", "0", "0" >>
        [] key = <<"A", "R">> -> << "C", "1", "0", "6", "4", "A", "A", "B" >>
        [] key = <<"M", "X">> -> << "0", "6", "0", "0", "0" >>
        [] key = <<"E", "S">> -> << "2", "8", "0", "0", "1" >>
        [] key = <<"B", "R">> -> << "0", "1", "3", "1", "0", "-", "1", "0", "0" >>
        [] OTHER -> << "0", "0", "0", "0", "0" >>

\* the countries the functions are called with: the supported ones in every
\* letter case (the long s and the dotless i among the letters), and some
\* without a pattern
CaseVariants(key) ==
  { s \in [DOMAIN key -> UpperLetters \cup { LowerCase[i] : i \in DOMAIN LowerCase }
                           \cup { "\\u017F", "\\u0131" }] :
      toUpperCase(s) = key }
Countries ==
  UNION { CaseVariants(key) : key \in PatternKeys }
    \cup { <<"U", "S">>, <<"u", "s">>, <<"C">>, << >>, <<"C", "L", " ">>,
           <<"E", "\\u00DF">>, <<"B", "\\u0280">> }

\* the characters of the codes typed by hand
TypedChars == { "0", "-" } \cup TypedWhitespace

PcStart ==
  /\ pcCountry \in Countries
  /\ pcCode = << >>
  /\ pcOrigin = "typed"
  /\ pcResult = "none"

PcIdle ==
  /\ pcCountry = << >>
  /\ pcCode = << >>
  /\ pcOrigin = "typed"
  /\ pcResult = "none"

PcOnly == UNCHANGED << protVars, vehVars, moreVars >>

\* the form is filled with getPostalCodeExample(country)
UseExample ==
  /\ pcCode' = getPostalCodeExample(pcCountry)
  /\ pcOrigin' = "example"
  /\ pcResult' = "none"
  /\ UNCHANGED pcCountry
  /\ PcOnly

\* a whitespace character is typed into the example
TypeWhitespace(i, c) ==
  /\ pcOrigin = "example"
  /\ Len(pcCode) - Len(RemoveWhitespace(pcCode)) < MaxSpaces
  /\ i \in 0..Len(pcCode)
  /\ c \in TypedWhitespace
  /\ pcCode' = SubSeq(pcCode, 1, i) \o <<c>> \o SubSeq(pcCode, i + 1, Len(pcCode))
  /\ pcResult' = "none"
  /\ UNCHANGED << pcCountry, pcOrigin >>
  /\ PcOnly

\* a code is typed by hand, character by character
TypeChar(c) ==
  /\ c \in TypedChars
  /\ IF pcOrigin = "typed"
       THEN Len(pcCode) < MaxTyped /\ pcCode' = Append(pcCode, c)
       ELSE pcCode' = <<c>>
  /\ pcOrigin' = "typed"
  /\ pcResult' = "none"
  /\ UNCHANGED pcCountry
  /\ PcOnly

\* validatePostalCodeFormat(code, country) is called
Validate ==
  /\ pcResult = "none"
  /\ pcResult' = IF validatePostalCodeFormat(pcCode, pcCountry) THEN "true" ELSE "false"
  /\ UNCHANGED << pcCountry, pcCode, pcOrigin >>
  /\ PcOnly

PcNext ==
  \/ UseExample
  \/ \E i \in 0..Len(pcCode), c \in TypedWhitespace : TypeWhitespace(i, c)
  \/ \E c \in TypedChars : TypeChar(c)
  \/ Validate


(***************************************************************************)
(* GeolocationService.detectCountryByIP                                    *)
(***************************************************************************)
geolocationAPIs ==
  << "https://ipapi.co/json/",
     "https://api.ipgeolocation.io/ipgeo?apiKey=free",
     "https://ipinfo.io/json" >>

\* JSON values of a field of an answer: absent, a string, a number
Undefined == [t |-> "undefined"]
Str(s) == [t |-> "string", s |-> s]
Num(n) == [t |-> "number", n |-> n]
\* JavaScript's ToBoolean
Truthy(v) ==
  CASE v.t = "undefined" -> FALSE
    [] v.t = "string" -> v.s # << >>
    [] v.t = "number" -> v.n # 0
\* a || b
Or(a, b) == IF Truthy(a) THEN a ELSE b

\* absent, the empty string, a lower-case code, a code with a letter outside
\* ASCII, a number
GeoFieldValues ==
  { Undefined, Str(<< >>), Str(<<"c", "l">>), Str(<<"c", "\\u00F4">>), Num(55) }
GeoBodies ==
  [ country_code : GeoFieldValues, country : GeoFieldValues, countryCode : GeoFieldValues ]
NoBody == [ country_code |-> Undefined, country |-> Undefined, countryCode |-> Undefined ]
\* what one endpoint does: fetch rejects; the status is not OK; the body is
\* not JSON; the body is the JSON null; the body is a JSON object
GeoAnswers ==
  { [kind |-> k, data |-> NoBody] : k \in {"throws", "notOk", "noJson", "null"} }
    \cup { [kind |-> "json", data |-> b] : b \in GeoBodies }

\* one iteration of the loop for the answer a of its endpoint: a rejected
\* fetch, a rejected json() and the TypeError of reading a field of null are
\* caught
detectCountryByIPBody(a) ==
  CASE a.kind \in {"throws", "noJson", "null"} -> [to |-> "continue", value |-> << >>]
    [] a.kind = "notOk" -> [to |-> "continue", value |-> << >>]
    [] a.kind = "json" ->
         LET countryCode == Or(Or(a.data.country_code, a.data.country), a.data.countryCode)
         IN  IF Truthy(countryCode) /\ countryCode.t = "string"
               THEN [to |-> "return", value |-> toUpperCase(countryCode.s)]
               ELSE [to |-> "continue", value |-> << >>]

NoResult == [kind |-> "pending", value |-> << >>]

DcIdle ==
  /\ dcPc = "idle"
  /\ dcAsked = << >>
  /\ dcAnswers = << >>
  /\ dcResult = NoResult

DcOnly == UNCHANGED << protVars, vehVars, pcVars, nmVars, ctxVars, munVars, homeVars, hashVars >>

\* detectCountryByIP(): the first fetch is sent
DetectCountryByIP ==
  /\ dcPc = "idle"
  /\ dcPc' = "fetch"
  /\ dcAsked' = << geolocationAPIs[1] >>
  /\ UNCHANGED << dcAnswers, dcResult >>
  /\ DcOnly

\* the endpoint in turn answers: the function returns, rejects, fetches the
\* next endpoint or returns 'BR' after the last one
DetectAnswer(a) ==
  /\ dcPc = "fetch"
  /\ dcAnswers' = Append(dcAnswers, a)
  /\ LET r == detectCountryByIPBody(a)
         i == Len(dcAsked)
     IN  CASE r.to = "return" ->
                /\ dcPc' = "done"
                /\ dcResult' = [kind |-> "resolved", value |-> r.value]
                /\ UNCHANGED dcAsked
           [] r.to = "reject" ->
                /\ dcPc' = "done"
                /\ dcResult' = [kind |-> "rejected", value |-> << >>]
                /\ UNCHANGED dcAsked
           [] r.to = "continue" /\ i < Len(geolocationAPIs) ->
                /\ dcAsked' = Append(dcAsked, geolocationAPIs[i + 1])
                /\ UNCHANGED << dcPc, dcResult >>
           [] r.to = "continue" /\ i = Len(geolocationAPIs) ->
                /\ dcPc' = "done"
                /\ dcResult' = [kind |-> "resolved", value |-> <<"B", "R">>]
                /\ UNCHANGED dcAsked
  /\ DcOnly

DcNext == DetectCountryByIP \/ \E a \in GeoAnswers : DetectAnswer(a)

(***************************************************************************)
(* GeolocationService.getNearbyMunicipalities                              *)
(***************************************************************************)
\* items of data.results
MaxResults == 3
\* largest distance of an item, in km
MaxDistance == 2
\* the distance the comparator takes for an entry whose distance is falsy
FarAway == 999

CityValues == { Undefined, Str(<<"Arica">>), Str(<<"Buin">>) }
DistanceValues == { Undefined } \cup { Num(d) : d \in 0..MaxDistance }
\* data.results: the items carry distinct postal codes
Results ==
  UNION { { [ i \in 1..n |-> [city |-> f[i].city, distance |-> f[i].distance, code |-> i] ] :
              f \in [1..n -> [city : CityValues, distance : DistanceValues]] } :
          n \in 0..MaxResults }
\* fetch rejects; the status is not OK; the body is the JSON null; the body
\* has no results array; the body has a results array
NearbyAnswers ==
  { [kind |-> k, results |-> << >>] : k \in {"throws", "notOk", "null", "noResults"} }
    \cup { [kind |-> "json", results |-> r] : r \in Results }

\* the object data.results.map builds of an item
Municipality(item) ==
  [ city |-> IF Truthy(item.city) THEN item.city.s ELSE <<"Ciudad Desconocida">>,
    postal_code |-> item.code,
    distance |-> IF Truthy(item.distance) THEN item.distance.n ELSE 0 ]

\* self.findIndex(m => m.city === city)
findIndex(self, city) ==
  CHOOSE i \in DOMAIN self :
    /\ self[i].city = city
    /\ \A j \in 1..(i - 1) : self[j].city # city

\* variant of the filter that keeps the last entry of a city
uniqueMunicipalities_KeepLast(municipalities) ==
  LET last_(city) ==
        CHOOSE i \in DOMAIN municipalities :
          /\ municipalities[i].city = city
          /\ \A j \in (i + 1)..Len(municipalities) : municipalities[j].city # city
      F[k \in 0..Len(municipalities)] ==
        IF k = 0 THEN << >>
        ELSE IF k = last_(municipalities[k].city)
               THEN Append(F[k - 1], municipalities[k])
               ELSE F[k - 1]
  IN  F[Len(municipalities)]

\* municipalities.filter((municipality, index, self) =>
\*   index === self.findIndex(m => m.city === municipality.city))
uniqueMunicipalities(municipalities) ==
  LET F[k \in 0..Len(municipalities)] ==
        IF k = 0 THEN << >>
        ELSE IF k = findIndex(municipalities, municipalities[k].city)
               THEN Append(F[k - 1], municipalities[k])
               ELSE F[k - 1]
  IN  F[Len(municipalities)]

\* the comparator of the sort
compareDistance(a, b) ==
  LET distA == IF a.distance # 0 THEN a.distance ELSE FarAway
      distB == IF b.distance # 0 THEN b.distance ELSE FarAway
  IN  distA - distB

\* Array.prototype.sort with the comparator: a stable sort
sort(list) ==
  LET Insert(s, x) ==
        LET n == Cardinality({ i \in DOMAIN s : compareDistance(s[i], x) <= 0 })
        IN  SubSeq(s, 1, n) \o << x >> \o SubSeq(s, n + 1, Len(s))
      S[k \in 0..Len(list)] == IF k = 0 THEN << >> ELSE Insert(S[k - 1], list[k])
  IN  S[Len(list)]

\* getNearbyMunicipalities after the API answered a
getNearbyMunicipalities(a) ==
  CASE a.kind \in {"throws", "notOk", "null"} -> [kind |-> "rejected", value |-> << >>]
    [] a.kind = "noResults" -> [kind |-> "resolved", value |-> << >>]
    [] a.kind = "json" ->
         LET municipalities == [ i \in DOMAIN a.results |-> Municipality(a.results[i]) ]
         IN  [kind |-> "resolved", value |-> sort(uniqueMunicipalities(municipalities))]

NoAnswer == [kind |-> "none", results |-> << >>]

NmIdle ==
  /\ nmPc = "idle"
  /\ nmAnswer = NoAnswer
  /\ nmResult = NoResult

NmOnly == UNCHANGED << protVars, vehVars, pcVars, dcVars, ctxVars, munVars, homeVars, hashVars >>

\* getNearbyMunicipalities(postalCode, country, radius): the request is sent
GetNearbyMunicipalities ==
  /\ nmPc = "idle"
  /\ nmPc' = "fetch"
  /\ UNCHANGED << nmAnswer, nmResult >>
  /\ NmOnly

NearbyAnswer(a) ==
  /\ nmPc = "fetch"
  /\ nmPc' = "done"
  /\ nmAnswer' = a
  /\ nmResult' = getNearbyMunicipalities(a)
  /\ NmOnly

NmNext == GetNearbyMunicipalities \/ \E a \in NearbyAnswers : NearbyAnswer(a)
(***************************************************************************)
(* Municipios: the funnel from the selection to '/recebedor'               *)
(***************************************************************************)
\* the names of the municipalities on the page
MunNames == { "Arica", "Buin" }
\* the values the buttons of the start-date dialogs select: the three days
\* of getNextThreeDays (on 30/10/2025) and 'Otro dia'
StartDates == { "31/10/2025", "1/11/2025", "2/11/2025", "outro" }
\* a confirmed postal code
Ceps ==
  { [cep |-> "7500000", city |-> "Providencia", state |-> "RM"],
    [cep |-> "01310-100", city |-> "Sao Paulo", state |-> "SP"],
    [cep |-> "C1064AAB", city |-> "Buenos Aires", state |-> "C"] }
NoCep == [cep |-> Null, city |-> Null, state |-> Null]

NotWritten == [written |-> FALSE, municipios |-> {}]
NoHandler == [handler |-> "none", toast |-> Null]

\* the static data: the states that have an entry in municipiosPorEstado, and
\* the names of an entry
StatesWithData == { "SP" }
municipiosPorEstado(state) == IF state \in StatesWithData THEN MunNames ELSE {}

\* a list of municipios with nothing selected
Unselected(names) == [n \in names |-> FALSE]

\* how GeolocationService.getNearbyMunicipalities settles for the page: it
\* rejects, or resolves with the cities of the answer
LoadAnswers ==
  { [kind |-> "rejected", cities |-> {}] }
    \cup { [kind |-> "resolved", cities |-> c] : c \in { {}, {"Arica"}, MunNames } }

\* localStorage.getItem('user_country') || 'BR'
storedCountry(storage) == IF storage.user_country = Null THEN "BR" ELSE storage.user_country

\* the test of loadNearbyMunicipalities: the API is asked for another country
\* than Brazil when a postal code is stored
asksApi(storage) == storedCountry(storage) # "BR" /\ storage.user_cep # Null

MunStart(locations, candidatos, ceps, saved, countries, userCeps) ==
  /\ location \in locations
  /\ cepData \in ceps
  /\ userCheckedCep = (cepData # NoCep)
  /\ showCepModal = FALSE
  /\ munMounted = FALSE
  /\ funnelStorage \in
       [ candidato_data : candidatos, candidato_data_completo : {NotWritten},
         start_date : {Null}, shopee_delivery_cep_data : saved,
         user_country : countries, user_cep : userCeps ]
  /\ loading = TRUE
  /\ loadPc = "idle"
  /\ staleLoads = 0
  /\ nearbyMunicipalities = {}
  /\ municipios = Unselected({})
  /\ selectedMunicipios = {}
  /\ submitting = FALSE
  /\ showLoadingModal = FALSE
  /\ showStartDateModal = FALSE
  /\ selectedStartDate = Null
  /\ munLast = NoHandler

MunOnly ==
  UNCHANGED << protVars, vehVars, pcVars, dcVars, nmVars, cepData, userCheckedCep,
               homeVars, hashVars >>

\* the page is shown (loading is false) and no modal covers it
MunOpen ==
  /\ munMounted /\ location = "/municipios"
  /\ ~loading /\ ~showLoadingModal /\ ~showStartDateModal

\* the requests in flight once the instance of the page is gone
Abandoned == staleLoads + (IF loadPc = "awaiting" THEN 1 ELSE 0)

\* the page mounts and its two effects run.  The first one calls
\* loadNearbyMunicipalities, which asks the API for a country other than
\* Brazil; the second one sends a visitor without candidato_data or without
\* cepData back to '/', and else loads the static list for Brazil and ends
\* the loading view
MunicipiosMount ==
  /\ location = "/municipios"
  /\ ~munMounted
  /\ LET asks == asksApi(funnelStorage)
         redirects == funnelStorage.candidato_data = "absent" \/ cepData = NoCep
         brazil == storedCountry(funnelStorage) = "BR"
         found == cepData.state \in StatesWithData
     IN  IF redirects
           THEN /\ location' = "/"
                /\ staleLoads' = staleLoads + (IF asks THEN 1 ELSE 0)
                /\ munLast' = [handler |-> "useEffect", toast |-> Null]
                /\ UNCHANGED << munMounted, loading, loadPc, municipios >>
           ELSE /\ munMounted' = TRUE
                /\ loading' = FALSE
                /\ loadPc' = IF asks THEN "awaiting" ELSE "idle"
                /\ municipios' =
                     IF brazil /\ found THEN Unselected(municipiosPorEstado(cepData.state))
                     ELSE municipios
                /\ munLast' =
                     [ handler |-> "useEffect",
                       toast |-> IF brazil /\ ~found THEN "Error al cargar municipios"
                                 ELSE Null ]
                /\ UNCHANGED << location, staleLoads >>
  /\ UNCHANGED << showCepModal, funnelStorage, nearbyMunicipalities, selectedMunicipios,
                  submitting, showLoadingModal, showStartDateModal, selectedStartDate >>
  /\ MunOnly

\* getNearbyMunicipalities settles for the mounted page: the cities replace
\* both lists, a rejection gives the toast 'Erro'
loadNearbyMunicipalities(a) ==
  /\ munMounted /\ location = "/municipios"
  /\ loadPc = "awaiting"
  /\ loadPc' = "idle"
  /\ IF a.kind = "resolved"
       THEN /\ nearbyMunicipalities' = a.cities
            /\ municipios' = Unselected(a.cities)
            /\ munLast' = [handler |-> "loadNearbyMunicipalities", toast |-> Null]
       ELSE /\ munLast' = [handler |-> "loadNearbyMunicipalities", toast |-> "Erro"]
            /\ UNCHANGED << nearbyMunicipalities, municipios >>
  /\ UNCHANGED << location, showCepModal, funnelStorage, munMounted, loading, staleLoads,
                  selectedMunicipios, submitting, showLoadingModal, showStartDateModal,
                  selectedStartDate >>
  /\ MunOnly

\* getNearbyMunicipalities settles after the page that asked was unmounted:
\* the state of that instance is gone, the toast of a rejection still shows
loadNearbyAbandoned(a) ==
  /\ staleLoads > 0
  /\ staleLoads' = staleLoads - 1
  /\ munLast' =
       [ handler |-> "loadNearbyMunicipalities",
         toast |-> IF a.kind = "rejected" THEN "Erro" ELSE Null ]
  /\ UNCHANGED << location, showCepModal, funnelStorage, munMounted, loading, loadPc,
                  nearbyMunicipalities, municipios, selectedMunicipios, submitting,
                  showLoadingModal, showStartDateModal, selectedStartDate >>
  /\ MunOnly

\* a checkbox of the list of the API: onCheckedChange
CheckMunicipality(city) ==
  /\ MunOpen
  /\ city \in nearbyMunicipalities
  /\ selectedMunicipios' =
       IF city \in selectedMunicipios THEN selectedMunicipios \ {city}
       ELSE selectedMunicipios \cup {city}
  /\ munLast' = [handler |-> "onCheckedChange", toast |-> Null]
  /\ UNCHANGED << location, showCepModal, funnelStorage, munMounted, loading, loadPc,
                  staleLoads, nearbyMunicipalities, municipios, submitting,
                  showLoadingModal, showStartDateModal, selectedStartDate >>
  /\ MunOnly

\* the button above the static list: every entry is selected, or none when
\* all were
toggleAllMunicipios ==
  /\ MunOpen
  /\ nearbyMunicipalities = {}
  /\ LET allSelected == \A n \in DOMAIN municipios : municipios[n]
     IN  municipios' = [n \in DOMAIN municipios |-> ~allSelected]
  /\ munLast' = [handler |-> "toggleAllMunicipios", toast |-> Null]
  /\ UNCHANGED << location, showCepModal, funnelStorage, munMounted, loading, loadPc,
                  staleLoads, nearbyMunicipalities, selectedMunicipios, submitting,
                  showLoadingModal, showStartDateModal, selectedStartDate >>
  /\ MunOnly

toggleMunicipio(index) ==
  /\ MunOpen
  /\ nearbyMunicipalities = {}
  /\ index \in DOMAIN municipios
  /\ municipios' = [municipios EXCEPT ![index] = ~municipios[index]]
  /\ munLast' = [handler |-> "toggleMunicipio", toast |-> Null]
  /\ UNCHANGED << location, showCepModal, funnelStorage, munMounted, loading, loadPc,
                  staleLoads, nearbyMunicipalities, selectedMunicipios, submitting,
                  showLoadingModal, showStartDateModal, selectedStartDate >>
  /\ MunOnly

\* variant of handleSubmit without the test of the selection
handleSubmitBody_AnySelection(selected, candidatoData) ==
  IF candidatoData = "invalid"
    THEN [ok |-> FALSE, submitting |-> FALSE, toast |-> "Error en el registro"]
  ELSE [ok |-> TRUE, submitting |-> TRUE, toast |-> Null]

\* handleSubmit for the selection municipiosSelecionados: JSON.parse throws on
\* a candidato_data that is not JSON
handleSubmitBody(selected, candidatoData) ==
  IF selected = {}
    THEN [ok |-> FALSE, submitting |-> FALSE, toast |-> "Selección necesaria"]
  ELSE IF candidatoData = "invalid"
    THEN [ok |-> FALSE, submitting |-> FALSE, toast |-> "Error en el registro"]
  ELSE [ok |-> TRUE, submitting |-> TRUE, toast |-> Null]

\* the 'Continuar' button: disabled while submitting and, in the list of the
\* API, while nothing is ticked
handleSubmit ==
  /\ MunOpen
  /\ ~submitting
  /\ nearbyMunicipalities # {} => selectedMunicipios # {}
  /\ LET municipiosSelecionados ==
           IF nearbyMunicipalities # {} THEN selectedMunicipios
           ELSE { n \in DOMAIN municipios : municipios[n] }
         r == handleSubmitBody(municipiosSelecionados, funnelStorage.candidato_data)
     IN  /\ submitting' = r.submitting
         /\ showLoadingModal' = r.ok
         /\ funnelStorage' =
              IF r.ok
                THEN [funnelStorage EXCEPT !.candidato_data_completo =
                        [written |-> TRUE, municipios |-> municipiosSelecionados]]
                ELSE funnelStorage
         /\ munLast' = [handler |-> "handleSubmit", toast |-> r.toast]
  /\ UNCHANGED << location, showCepModal, munMounted, loading, loadPc, staleLoads,
                  nearbyMunicipalities, municipios, selectedMunicipios, showStartDateModal,
                  selectedStartDate >>
  /\ MunOnly

\* LoadingModal calls onComplete when its animation has run
handleLoadingComplete ==
  /\ munMounted /\ location = "/municipios"
  /\ showLoadingModal
  /\ showLoadingModal' = FALSE
  /\ showStartDateModal' = TRUE
  /\ munLast' = [handler |-> "handleLoadingComplete", toast |-> Null]
  /\ UNCHANGED << location, showCepModal, funnelStorage, munMounted, loading, loadPc,
                  staleLoads, nearbyMunicipalities, municipios, selectedMunicipios,
                  submitting, selectedStartDate >>
  /\ MunOnly

\* a date button of the start-date dialog
handleStartDateSelection(date) ==
  /\ munMounted /\ location = "/municipios"
  /\ showStartDateModal
  /\ selectedStartDate' = date
  /\ funnelStorage' = [funnelStorage EXCEPT !.start_date = date]
  /\ munLast' = [handler |-> "handleStartDateSelection", toast |-> Null]
  /\ UNCHANGED << location, showCepModal, munMounted, loading, loadPc, staleLoads,
                  nearbyMunicipalities, municipios, selectedMunicipios, submitting,
                  showLoadingModal, showStartDateModal >>
  /\ MunOnly

\* handleStartDateContinue: what it does for the selected date
handleStartDateContinueBody(date) ==
  IF date # Null THEN [navigate |-> TRUE, toast |-> Null]
  ELSE [navigate |-> FALSE, toast |-> "Selección necesaria"]

\* the dialog's 'Continuar' button, disabled while no date is selected
handleStartDateContinue ==
  /\ munMounted /\ location = "/municipios"
  /\ showStartDateModal
  /\ selectedStartDate # Null
  /\ LET r == handleStartDateContinueBody(selectedStartDate)
     IN  /\ showStartDateModal' = ~r.navigate
         /\ location' = IF r.navigate THEN "/recebedor" ELSE location
         /\ munMounted' = ~r.navigate
         /\ loadPc' = IF r.navigate THEN "idle" ELSE loadPc
         /\ staleLoads' = IF r.navigate THEN Abandoned ELSE staleLoads
         /\ munLast' = [handler |-> "handleStartDateContinue", toast |-> r.toast]
  /\ UNCHANGED << showCepModal, funnelStorage, loading, nearbyMunicipalities, municipios,
                  selectedMunicipios, submitting, showLoadingModal, selectedStartDate >>
  /\ MunOnly

\* the dialog is dismissed: onOpenChange(false)
StartDateDialogDismissed ==
  /\ munMounted /\ location = "/municipios"
  /\ showStartDateModal
  /\ showStartDateModal' = FALSE
  /\ munLast' = [handler |-> "onOpenChange", toast |-> Null]
  /\ UNCHANGED << location, showCepModal, funnelStorage, munMounted, loading, loadPc,
                  staleLoads, nearbyMunicipalities, municipios, selectedMunicipios,
                  submitting, showLoadingModal, selectedStartDate >>
  /\ MunOnly

\* the button of the Footer, which the page renders: setShowCepModal(true)
handleStartRegistrationOnMunicipios ==
  /\ MunOpen
  /\ showCepModal' = TRUE
  /\ munLast' = [handler |-> "handleStartRegistration", toast |-> Null]
  /\ UNCHANGED << location, funnelStorage, munMounted, loading, loadPc, staleLoads,
                  nearbyMunicipalities, municipios, selectedMunicipios, submitting,
                  showLoadingModal, showStartDateModal, selectedStartDate >>
  /\ MunOnly

\* the visitor comes back to the page: a new instance of the component
VisitMunicipios ==
  /\ location \in {"/cadastro", "/recebedor"}
  /\ location' = "/municipios"
  /\ munMounted' = FALSE
  /\ loading' = TRUE
  /\ nearbyMunicipalities' = {}
  /\ municipios' = Unselected({})
  /\ selectedMunicipios' = {}
  /\ submitting' = FALSE
  /\ showLoadingModal' = FALSE
  /\ showStartDateModal' = FALSE
  /\ selectedStartDate' = Null
  /\ munLast' = NoHandler
  /\ UNCHANGED << showCepModal, funnelStorage, loadPc, staleLoads >>
  /\ MunOnly

\* the 'back' button of the list of the API: navigate('/cadastro')
BackToCadastro ==
  /\ MunOpen
  /\ nearbyMunicipalities # {}
  /\ location' = "/cadastro"
  /\ munMounted' = FALSE
  /\ loadPc' = "idle"
  /\ staleLoads' = Abandoned
  /\ munLast' = [handler |-> "onClick", toast |-> Null]
  /\ UNCHANGED << showCepModal, funnelStorage, loading, nearbyMunicipalities, municipios,
                  selectedMunicipios, submitting, showLoadingModal, showStartDateModal,
                  selectedStartDate >>
  /\ MunOnly

MunNext ==
  \/ MunicipiosMount
  \/ \E a \in LoadAnswers : loadNearbyMunicipalities(a)
  \/ \E a \in LoadAnswers : loadNearbyAbandoned(a)
  \/ \E city \in MunNames : CheckMunicipality(city)
  \/ toggleAllMunicipios
  \/ \E index \in MunNames : toggleMunicipio(index)
  \/ handleSubmit
  \/ handleLoadingComplete
  \/ \E date \in StartDates : handleStartDateSelection(date)
  \/ handleStartDateContinue
  \/ StartDateDialogDismissed
  \/ handleStartRegistrationOnMunicipios
  \/ BackToCadastro
  \/ VisitMunicipios

(***************************************************************************)
(* Home: the CEP modal and the navigation to '/cadastro'                   *)
(***************************************************************************)
\* setTimeout callbacks of handleCepConfirm that can be pending at once
MaxTimeouts == 2

HomeStart ==
  /\ MunStart({"/"}, {"absent"}, {NoCep}, {Null, "saved"}, {Null}, {Null})
  /\ homeMounted = FALSE
  /\ timeouts = 0
  /\ homeLast = "none"

HomeOnly == UNCHANGED << protVars, vehVars, pcVars, dcVars, nmVars, munVars, hashVars >>

\* Home mounts: the effect removes the saved CEP and shows the modal
HomeMount ==
  /\ location = "/"
  /\ ~homeMounted
  /\ homeMounted' = TRUE
  /\ funnelStorage' = [funnelStorage EXCEPT !.shopee_delivery_cep_data = Null]
  /\ showCepModal' = TRUE
  /\ homeLast' = "useEffect"
  /\ UNCHANGED << location, cepData, userCheckedCep, timeouts >>
  /\ HomeOnly

\* variant of handleCepModalClose that counts the CEP as checked
handleCepModalCloseBody_Checked(checked) == [showCepModal |-> FALSE, userCheckedCep |-> TRUE]

\* handleCepModalClose: what it sets
handleCepModalCloseBody(checked) == [showCepModal |-> FALSE, userCheckedCep |-> checked]

\* CepModal calls onConfirm with the postal code it looked up
handleCepConfirm(cep) ==
  /\ homeMounted /\ location = "/"
  /\ showCepModal
  /\ timeouts < MaxTimeouts
  /\ cepData' = cep
  /\ userCheckedCep' = TRUE
  /\ showCepModal' = FALSE
  /\ timeouts' = timeouts + 1
  /\ homeLast' = "handleCepConfirm"
  /\ UNCHANGED << location, funnelStorage, homeMounted >>
  /\ HomeOnly

\* CepModal calls onClose
handleCepModalClose ==
  /\ homeMounted /\ location = "/"
  /\ showCepModal
  /\ LET r == handleCepModalCloseBody(userCheckedCep)
     IN  /\ showCepModal' = r.showCepModal
         /\ userCheckedCep' = r.userCheckedCep
  /\ homeLast' = "handleCepModalClose"
  /\ UNCHANGED << location, cepData, funnelStorage, homeMounted, timeouts >>
  /\ HomeOnly

\* the button of the Footer, which Home renders: setShowCepModal(true)
handleStartRegistration ==
  /\ homeMounted /\ location = "/"
  /\ showCepModal' = TRUE
  /\ homeLast' = "handleStartRegistration"
  /\ UNCHANGED << location, cepData, userCheckedCep, funnelStorage, homeMounted, timeouts >>
  /\ HomeOnly

\* 500 ms after a confirmation: setLocation('/cadastro'); the timer is not
\* cleared when Home unmounts
CepTimeout ==
  /\ timeouts > 0
  /\ timeouts' = timeouts - 1
  /\ location' = "/cadastro"
  /\ homeMounted' = FALSE
  /\ homeLast' = "setTimeout"
  /\ UNCHANGED << cepData, userCheckedCep, showCepModal, funnelStorage >>
  /\ HomeOnly

\* the pages of the funnel
Paths == { "/", "/cadastro", "/municipios", "/recebedor" }

\* the visitor opens another page of the application, or '/' again: Home
\* unmounts, a new instance mounts at '/'
VisitorNavigates(path) ==
  /\ location # path
  /\ location' = path
  /\ homeMounted' = FALSE
  /\ homeLast' = "none"
  /\ UNCHANGED << cepData, userCheckedCep, showCepModal, funnelStorage, timeouts >>
  /\ HomeOnly

HomeNext ==
  \/ HomeMount
  \/ \E cep \in Ceps : handleCepConfirm(cep)
  \/ handleCepModalClose
  \/ handleStartRegistration
  \/ CepTimeout
  \/ \E path \in Paths : VisitorNavigates(path)

(***************************************************************************)
(* ipService.generateDeviceId: the hash of the browser attributes.  A      *)
(* number is held as [hi, lo], the number hi * 2^16 + lo with lo in        *)
(* 0..2^16-1, so that the 32-bit arithmetic is exact.                      *)
(***************************************************************************)
\* calls of generateDeviceId
MaxIds == 2

Half == 2^16
Norm(hi, lo) == [hi |-> hi + (lo \div Half), lo |-> lo % Half]
Zero == [hi |-> 0, lo |-> 0]

\* ToInt32, as applied by << and by | 0
ToInt32(v) == [hi |-> ((v.hi + Half \div 2) % Half) - Half \div 2, lo |-> v.lo]
\* v << 5
ShiftLeft5(v) == ToInt32(Norm(ToInt32(v).hi * 32, ToInt32(v).lo * 32))
Minus(a, b) == Norm(a.hi - b.hi, a.lo - b.lo)
Plus(a, code) == Norm(a.hi, a.lo + code)
\* Math.abs
Abs(v) == IF v.hi < 0 THEN Norm(0 - v.hi, 0 - v.lo) ELSE v

\* variant of the loop body without "hash |= 0"
hashChar_NoWrap(h, code) == Plus(Minus(ShiftLeft5(h), h), code)

\* hash = ((hash << 5) - hash) + str.charCodeAt(i); hash |= 0
hashChar(h, code) == ToInt32(Plus(Minus(ShiftLeft5(h), h), code))

RadixDigits ==
  << "0", "1", "2", "3", "4", "5", "6", "7", "8", "9", "a", "b", "c", "d", "e", "f",
     "g", "h", "i", "j", "k", "l", "m", "n", "o", "p", "q", "r", "s", "t", "u", "v",
     "w", "x", "y", "z" >>

\* Number.prototype.toString(radix) of a natural number below 2^31
RECURSIVE NatToString(_, _)
NatToString(n, radix) ==
  IF n < radix THEN << RadixDigits[n + 1] >>
  ELSE Append(NatToString(n \div radix, radix), RadixDigits[(n % radix) + 1])

\* String(n) of an integer, as join applies it
IntToString(n) ==
  IF n < 0 THEN << "-" >> \o NatToString(0 - n, 10) ELSE NatToString(n, 10)

\* toString(16) of the number v
toString16(v) ==
  LET a == Abs(v)
      low == NatToString(a.lo, 16)
      digits == IF a.hi = 0 THEN low
                ELSE NatToString(a.hi, 16) \o [k \in 1..(4 - Len(low)) |-> "0"] \o low
  IN  IF v.hi < 0 THEN << "-" >> \o digits ELSE digits

\* str.charCodeAt(i), for the characters of the attributes
CharCodes ==
  { <<"-", 45>>, <<"0", 48>>, <<"1", 49>>, <<"2", 50>>, <<"3", 51>>, <<"4", 52>>,
    <<"5", 53>>, <<"6", 54>>, <<"7", 55>>, <<"8", 56>>, <<"9", 57>>, <<"M", 77>>,
    <<"O", 79>>, <<"e", 101>>, <<"o", 111>>, <<"p", 112>>, <<"r", 114>>,
    <<"s", 115>>, <<"t", 116>>, <<"x", 120>>, <<"z", 122>>, <<"|", 124>> }
charCodeAt(c) == (CHOOSE p \in CharCodes : p[1] = c)[2]

\* the attributes generateDeviceId reads; hardwareConcurrency 0 stands for an
\* undefined one
Attributes ==
  [ userAgent : { <<"M", "o", "z">>, <<"O", "p", "e", "r">> },
    language : { <<"e", "s">>, <<"p", "t">> },
    timezoneOffset : { 0 - 120, 180 },
    colorDepth : { 24 },
    width : { 390, 1920 },
    height : { 844 },
    hardwareConcurrency : { 0, 8 } ]

\* components.join('|||')
join(c) ==
  LET sep == << "|", "|", "|" >>
  IN  c.userAgent \o sep \o c.language \o sep \o IntToString(c.timezoneOffset) \o sep
        \o IntToString(c.colorDepth) \o sep
        \o (IntToString(c.width) \o << "x" >> \o IntToString(c.height)) \o sep
        \o (IF c.hardwareConcurrency # 0 THEN IntToString(c.hardwareConcurrency)
            ELSE << >>)

\* Date.now() at the return
Times == { 0, 35, 36, 1761868800 }

\* 'dev_' + Math.abs(hash).toString(16) + '_' + Date.now().toString(36)
deviceIdOf(h, now) == << "dev_" >> \o toString16(Abs(h)) \o << "_" >> \o NatToString(now, 36)

HashStart ==
  /\ components \in Attributes
  /\ hashPc = "idle"
  /\ hashStr = << >>
  /\ hashI = 0
  /\ hash = Zero
  /\ deviceIds = << >>

HashIdle ==
  /\ HashStart
  /\ components = CHOOSE c \in Attributes : TRUE

HashOnly ==
  UNCHANGED << protVars, vehVars, pcVars, dcVars, nmVars, ctxVars, munVars, homeVars >>

\* generateDeviceId(): up to the loop
GenerateDeviceId ==
  /\ hashPc = "idle"
  /\ Len(deviceIds) < MaxIds
  /\ hashPc' = "loop"
  /\ hashStr' = join(components)
  /\ hashI' = 0
  /\ hash' = Zero
  /\ UNCHANGED << components, deviceIds >>
  /\ HashOnly

\* one iteration of the loop
HashLoop ==
  /\ hashPc = "loop"
  /\ hashI < Len(hashStr)
  /\ hash' = hashChar(hash, charCodeAt(hashStr[hashI + 1]))
  /\ hashI' = hashI + 1
  /\ UNCHANGED << components, hashPc, hashStr, deviceIds >>
  /\ HashOnly

\* the return
GenerateReturn(now) ==
  /\ hashPc = "loop"
  /\ hashI = Len(hashStr)
  /\ deviceIds' = Append(deviceIds, deviceIdOf(hash, now))
  /\ hashPc' = "idle"
  /\ UNCHANGED << components, hashStr, hashI, hash >>
  /\ HashOnly

HashNext == GenerateDeviceId \/ HashLoop \/ \E now \in Times : GenerateReturn(now)

(***************************************************************************)
(* The components at rest                                                  *)
(***************************************************************************)
MunIdle == MunStart({"/"}, {"absent"}, {NoCep}, {Null}, {Null}, {Null})
HomeIdle == homeMounted = FALSE /\ timeouts = 0 /\ homeLast = "none"
MoreIdle == DcIdle /\ NmIdle /\ MunIdle /\ HomeIdle /\ HashIdle

(***************************************************************************)
(* Specifications of the blocking mechanism                                *)
(***************************************************************************)
ProdHosts == { host \in Hosts : ~isDevelopment(host) }
PlainIPs == { ip \in ClientIPs : ~isIpExempted(ip) }

\* one use of the hook; every host, client IP and outcome of the detection
Init ==
  /\ ProtStart([host : Hosts, clientIp : ClientIPs, device : SomeDevices],
               BOOLEAN, BOOLEAN, {1})
  /\ VehIdle /\ PcIdle /\ MoreIdle
Next == HookNext \/ BackendNext
Spec == Init /\ [][Next]_vars

\* the hook, in a component that stays mounted, and direct calls of
\* ipService, in production, on a desktop, with a backend that holds no ban
\* until the page reports
ApiInit ==
  /\ ProtStart([host : ProdHosts, clientIp : PlainIPs,
                device : { d \in SomeDevices : isConfirmedDesktop(d) /\ d.pointerFine }],
               {FALSE}, {FALSE}, {1})
  /\ VehIdle /\ PcIdle /\ MoreIdle
ApiSpec == ApiInit /\ [][MountedNext \/ BackendNext \/ ApiNext]_vars

\* the hook, in a component that stays mounted, on every device, in
\* production and outside a frame, with a visitor who tries the bypass
DevInit ==
  /\ ProtStart([host : ProdHosts, clientIp : PlainIPs, device : Devices],
               {FALSE}, BOOLEAN, {1})
  /\ VehIdle /\ PcIdle /\ MoreIdle
DevSpec == DevInit /\ [][MountedNext \/ BackendNext \/ VisitorClearsBan]_vars

\* The page stays open, on a confirmed desktop or on a phone: the component
\* that uses the hook mounts, its timer keeps firing, every request settles
\* and the server answers again and again (a request that can be answered
\* infinitely often is answered).
FairUses == {1}
FairInit ==
  /\ ProtStart([host : ProdHosts, clientIp : PlainIPs,
                device : { d \in SomeDevices : d.hover }],
               BOOLEAN, BOOLEAN, FairUses)
  /\ VehIdle /\ PcIdle /\ MoreIdle
FairNext ==
  \/ \E h \in Hooks : Mount(h)
  \/ \E s \in Runs : CheckAccessAnswer(s)
  \/ \E s \in Runs : CheckAccessReported(s)
  \/ Tick
  \/ \E h \in Hooks : IntervalCheck(h)
  \/ \E s \in Runs : IntervalAnswer(s)
  \/ BackendNext
  \/ VisitorClearsBan
FairSpec ==
  /\ FairInit
  /\ [][FairNext]_vars
  /\ WF_vars(Tick)
  /\ WF_vars(BackendNext)
  /\ \A h \in FairUses : WF_vars(Mount(h)) /\ WF_vars(IntervalCheck(h))
  /\ \A s \in FairUses \cup Detached :
       /\ WF_vars(CheckAccessAnswer(s))
       /\ WF_vars(CheckAccessReported(s))
       /\ WF_vars(IntervalAnswer(s))
       /\ SF_vars(IntervalAnswered(s, "banned"))
       /\ SF_vars(IntervalAnswered(s, "clear"))

(***************************************************************************)
(* Properties of the blocking mechanism                                    *)
(***************************************************************************)
Flag(store) == store[BANNED_KEY] = "true"
CookieFlag(ck) == <<BANNED_KEY, "true">> \in ck
Blocking == {"reportDesktopAccess", "markLocalBan", "redirectToBlankPage"}

\* C1: the ban is permanent.  Once isLocallyBanned() is true it is true after
\* every later step (operations of ipService, initial and periodic checks,
\* reloads, new tab sessions), and no step of the program clears the
\* sp_access_blocked flag of localStorage, of sessionStorage or of the cookie:
\* the sessionStorage flag goes only when the browser starts a new session.
C1_BanIsPermanent ==
  [][ /\ isLocallyBanned(Stores) => isLocallyBanned(Stores')
      /\ Flag(localStorage) => Flag(localStorage')
      /\ CookieFlag(cookie) => CookieFlag(cookie')
      /\ Flag(sessionStorage) => (Flag(sessionStorage') \/ PageLoad) ]_vars

\* C1 witness: the ban outlived a new session, and ipService ran on it
C1_Witness ==
  /\ isLocallyBanned(Stores)
  /\ ~Flag(sessionStorage)
  /\ last.who = {Api}
  /\ last.res = "banned"

\* C2: when markLocalBan, redirectToBlankPage or reportDesktopAccess has
\* returned, with or without an answer of the backend, sp_access_blocked is
\* 'true' in localStorage, in sessionStorage and in the cookie.
C2_AllThreeStores ==
  last.ret \in Blocking =>
    Flag(localStorage) /\ Flag(sessionStorage) /\ CookieFlag(cookie)

\* C2 witness: reportDesktopAccess returned after its request had failed
C2_Witness ==
  /\ last.ret = "reportDesktopAccess"
  /\ ~srvIpBanned
  /\ Flag(localStorage) /\ Flag(sessionStorage) /\ CookieFlag(cookie)

\* C3: outside development and outside a frame, whenever checkIfBanned
\* resolves with isBanned true in the hook, the hook redirects to the blank
\* page in the same step and does not consult the device detection, whatever
\* the user agent, the pointer, the hover capability and the screen size are.
C3_BannedIsBlockedOnAnyDevice ==
  (last.who # {} /\ last.who \subseteq Runs /\ last.res = "banned") =>
    /\ "redirectToBlankPage" \in last.calls
    /\ page = "blank"
    /\ "MobileDetect" \notin last.calls

\* C3 witness: a phone without fine pointer whose IP the server reported banned
C3_Witness ==
  /\ last.res = "banned"
  /\ page = "blank"
  /\ env.device.ua = "phone"
  /\ ~env.device.pointerFine


\* C4, as claimed: for a client whose IP contains an entry of neverBanIPs no
\* step of the hook (initial or periodic check, whatever the server answers)
\* calls reportDesktopAccess, marks a local ban or redirects to the blank page.
C4_NeverBanIpIsAllowed ==
  [][ (isIpExempted(env.clientIp) /\ last'.who # {} /\ last'.who \subseteq Runs) =>
        last'.calls \cap Blocking = {} ]_vars

\* C5, as claimed: in a development environment, with no local ban, no step
\* of the hook (initial or periodic check) sends a request, marks a local ban
\* or redirects to the blank page.
C5_DevelopmentIsUnprotected ==
  [][ (isDevelopment(env.host) /\ ~isLocallyBanned(Stores)
         /\ last'.who # {} /\ last'.who \subseteq Runs) =>
        /\ last'.sent = {}
        /\ last'.calls \cap Blocking = {}
        /\ page' # "blank" ]_vars

\* C6: when the hook mounts while a local ban is present, it calls
\* redirectToBlankPage and the page goes blank, it sends no request, checkAccess
\* does not run (checkIfBanned is not called) and no timer is set.
C6_LocalBanAtMountInterrupts ==
  [][ \A h \in Hooks :
        (mount[h] = "unmounted" /\ mount'[h] # "unmounted" /\ isLocallyBanned(Stores)) =>
          /\ last'.calls = {"redirectToBlankPage"}
          /\ page' = "blank"
          /\ last'.sent = {}
          /\ caPc'[h] = "idle"
          /\ cibPc'[h] = "idle"
          /\ timer'[h] = 0 ]_vars

\* C6 witness: the hook mounted on a local ban left by an earlier visit
C6_Witness ==
  \E h \in Hooks :
    /\ mount[h] = "blocked"
    /\ page = "blank"
    /\ last.who = {h}
    /\ caPc[h] = "idle"

\* the visitors the protection blocks
ShouldBlock ==
  \/ srvIpBanned
  \/ localStorage[BANNED_DEVICE_KEY] \in srvDevBanned
  \/ isConfirmedDesktop(env.device)

\* the initial check of h is over and has not blocked
InitialCheckFailed(h) ==
  /\ mount[h] = "mounted"
  /\ caPc[h] = "done"
  /\ page = "app"

\* C7, as claimed: if the initial check ended without blocking a visitor the
\* protection blocks (IP or stored device id banned on the server, or a
\* confirmed desktop, outside development and the never-ban list), then, the
\* timer firing and the server answering, a later periodic check marks the
\* local ban and redirects to the blank page.
C7_PeriodicCheckBlocks ==
  \A h \in Hooks :
    (InitialCheckFailed(h) /\ ShouldBlock /\ ~isDevelopment(env.host)
       /\ ~isIpExempted(env.clientIp))
      ~> (page = "blank" /\ isLocallyBanned(Stores))

\* C8: when isLocallyBanned() is true at the call of checkIfBanned, the call
\* resolves with isBanned true in the same step and sends no request.
C8_LocalCheckFirst ==
  last.local => (last.res = "banned" /\ last.sent = {})

\* C8 witness: a direct call of checkIfBanned on a local ban
C8_Witness ==
  /\ last.local
  /\ last.who = {Api}
  /\ last.ret = "checkIfBanned"
  /\ page = "app"


(***************************************************************************)
(* Specifications and properties of VehicleInfoBox                         *)
(***************************************************************************)
\* the blocking mechanism at rest: the page uses no hook
ProtIdle ==
  ProtStart([host : ProdHosts, clientIp : PlainIPs,
             device : { d \in SomeDevices : d.ua = "phone" }],
            {FALSE}, {FALSE}, {})

\* the box stays mounted while the parent changes the plate and lookups end;
\* a timer that stays set fires
VehInit == ProtIdle /\ VehStart /\ PcIdle /\ MoreIdle
VehSpec == VehInit /\ [][VehNext]_vars /\ WF_vars(AnalysisTick)

\* the lookup for a plate of three characters or more has finished with data
\* or with an error
LookupFinished ==
  /\ ~plateIsShort(licensePlate)
  /\ ~isLoading
  /\ vehicleInfo # Null \/ error # Null

\* C9: for a plate of trimmed length >= 3 whose lookup has finished with data
\* or with an error, VehicleInfoBox shows VehicleAnalysisFlow (no error view, no
\* rejection: with demonstration data when the lookup failed); the analysis of
\* a mounted VehicleAnalysisFlow eventually reaches 'approved', and once
\* 'approved' it stays so while VehicleAnalysisFlow stays mounted.
C9_AnalysisEndsApproved ==
  /\ [](LookupFinished =>
          /\ VehicleInfoBox(licensePlate, isLoading, vehicleInfo, error) = "flow"
          /\ flow.mounted
          /\ flow.analysisStage \in {"analyzing", "approved"}
          /\ (error # Null => flow.data = "demo"))
  /\ [][(flow.mounted /\ flow.analysisStage = "approved" /\ flow'.mounted) =>
          flow'.analysisStage = "approved"]_vars
  /\ (flow.mounted ~> (flow.analysisStage = "approved" \/ ~flow.mounted))

\* C9 witness: the analysis was approved after a lookup that failed
C9_Witness ==
  /\ LookupFinished
  /\ error = "error"
  /\ vehicleInfo = Null
  /\ flow.mounted
  /\ flow.analysisStage = "approved"
  /\ flow.progress = ProgressFull

(***************************************************************************)
(* Specification and properties of the postal-code formats                 *)
(***************************************************************************)
PcInit == ProtIdle /\ VehIdle /\ PcStart /\ MoreIdle
PcSpec == PcInit /\ [][PcNext]_vars

\* C10: for a supported country in any letter case its example, also with
\* whitespace typed into it, is valid; the result for a code is the result for
\* the code without its whitespace; and for a country without a pattern every
\* code is valid.
C10_ExamplesAreValid ==
  pcResult # "none" =>
    /\ (pcOrigin = "example" /\ toUpperCase(pcCountry) \in PatternKeys) => pcResult = "true"
    /\ (pcResult = "true") = validatePostalCodeFormat(RemoveWhitespace(pcCode), pcCountry)
    /\ toUpperCase(pcCountry) \notin PatternKeys => pcResult = "true"

\* C10 witness: the example of 'aR' with whitespace typed into it was accepted
C10_Witness ==
  /\ pcCountry = <<"a", "R">>
  /\ pcOrigin = "example"
  /\ Len(pcCode) > Len(getPostalCodeExample(pcCountry))
  /\ pcResult = "true"


(***************************************************************************)
(* Specification and properties of detectCountryByIP                       *)
(***************************************************************************)
DcInit == ProtIdle /\ VehIdle /\ PcIdle /\ MoreIdle
DcSpec == DcInit /\ [][DcNext]_vars

\* the country codes an answer carries: the non-empty strings among the three
\* fields of an OK answer whose body is an object
StringCodes(a) ==
  IF a.kind # "json" THEN {}
  ELSE { v.s : v \in { w \in { a.data.country_code, a.data.country, a.data.countryCode } :
                         w.t = "string" /\ w.s # << >> } }

\* the upper-case form of the codes the endpoints answer, written out
UpperCased(code) ==
  CASE code = <<"c", "l">> -> <<"C", "L">>
    [] code = <<"c", "\\u00F4">> -> <<"C", "\\u00D4">>

\* C11, as claimed: detectCountryByIP never rejects; it queries the three
\* endpoints in the listed order, goes on to the next endpoint exactly when
\* the one in turn throws, answers non-OK or carries no string country code,
\* returns the upper-cased code of the first endpoint that carries one without
\* querying the remaining ones, and returns 'BR' when none does.
C11_DetectNeverRejects ==
  /\ dcResult.kind # "rejected"
  /\ dcAsked = SubSeq(geolocationAPIs, 1, Len(dcAsked))
  /\ dcPc = "fetch" =>
       /\ Len(dcAsked) = Len(dcAnswers) + 1
       /\ \A i \in DOMAIN dcAnswers : StringCodes(dcAnswers[i]) = {}
  /\ dcPc = "done" =>
       /\ Len(dcAsked) = Len(dcAnswers)
       /\ \A i \in 1..(Len(dcAnswers) - 1) : StringCodes(dcAnswers[i]) = {}
       /\ IF StringCodes(dcAnswers[Len(dcAnswers)]) # {}
            THEN /\ dcResult.kind = "resolved"
                 /\ dcResult.value \in
                      { UpperCased(code) : code \in StringCodes(dcAnswers[Len(dcAnswers)]) }
            ELSE /\ Len(dcAsked) = Len(geolocationAPIs)
                 /\ dcResult = [kind |-> "resolved", value |-> <<"B", "R">>]

\* the value the code tests: the first truthy one of the three fields
FirstTruthy(a) == Or(Or(a.data.country_code, a.data.country), a.data.countryCode)
\* an OK answer whose body is an object and whose first truthy field is a string
Succeeds(a) == a.kind = "json" /\ Truthy(FirstTruthy(a)) /\ FirstTruthy(a).t = "string"

\* What holds of detectCountryByIP: the statement above with "carries a string
\* country code" narrowed to "the first truthy of the three fields is a
\* string", the code returned being the upper-case form of that field.
DetectFirstTruthyString ==
  /\ dcResult.kind # "rejected"
  /\ dcAsked = SubSeq(geolocationAPIs, 1, Len(dcAsked))
  /\ dcPc = "fetch" =>
       /\ Len(dcAsked) = Len(dcAnswers) + 1
       /\ \A i \in DOMAIN dcAnswers : ~Succeeds(dcAnswers[i])
  /\ dcPc = "done" =>
       /\ Len(dcAsked) = Len(dcAnswers)
       /\ \A i \in 1..(Len(dcAnswers) - 1) : ~Succeeds(dcAnswers[i])
       /\ IF Succeeds(dcAnswers[Len(dcAnswers)])
            THEN dcResult =
                   [kind |-> "resolved",
                    value |-> UpperCased(FirstTruthy(dcAnswers[Len(dcAnswers)]).s)]
            ELSE /\ Len(dcAsked) = Len(geolocationAPIs)
                 /\ dcResult = [kind |-> "resolved", value |-> <<"B", "R">>]

(***************************************************************************)
(* Specification and properties of getNearbyMunicipalities                 *)
(***************************************************************************)
NmInit == ProtIdle /\ VehIdle /\ PcIdle /\ MoreIdle
NmSpec == NmInit /\ [][NmNext]_vars

\* C12: in the list getNearbyMunicipalities returns, the distance field of
\* each entry is less than or equal to the distance field of the entry after
\* it.
C12_OrderedByDistance ==
  (nmPc = "done" /\ nmResult.kind = "resolved") =>
    \A i \in 1..(Len(nmResult.value) - 1) :
      nmResult.value[i].distance <= nmResult.value[i + 1].distance

\* the city an item has in the returned list
CityOf(item) == IF Truthy(item.city) THEN item.city.s ELSE <<"Ciudad Desconocida">>

\* C13: the returned list never contains two entries with the same city name,
\* every city of the API response appears in it exactly once, and the entry
\* kept for a city is the first item of the response with that city.
C13_UniqueByCity ==
  (nmPc = "done" /\ nmAnswer.kind = "json") =>
    LET r == nmAnswer.results
        v == nmResult.value
    IN  /\ nmResult.kind = "resolved"
        /\ \A i, j \in DOMAIN v : v[i].city = v[j].city => i = j
        /\ { v[i].city : i \in DOMAIN v } = { CityOf(r[k]) : k \in DOMAIN r }
        /\ \A i \in DOMAIN v :
             \E k \in DOMAIN r :
               /\ CityOf(r[k]) = v[i].city
               /\ \A j \in 1..(k - 1) : CityOf(r[j]) # v[i].city
               /\ v[i].postal_code = r[k].code

\* C13 witness: a response of three items, two of them of one city and a
\* third without a city, gave a list of two entries
C13_Witness ==
  /\ nmPc = "done"
  /\ nmAnswer.kind = "json"
  /\ Len(nmAnswer.results) = 3
  /\ nmAnswer.results[1].city = Str(<<"Buin">>)
  /\ nmAnswer.results[2].city = Undefined
  /\ nmAnswer.results[3].city = Str(<<"Buin">>)
  /\ Len(nmResult.value) = 2
  /\ \E i \in DOMAIN nmResult.value :
       nmResult.value[i].city = <<"Buin">> /\ nmResult.value[i].postal_code = 1

(***************************************************************************)
(* Further properties of the desktop/IP blocking mechanism                 *)
(***************************************************************************)
\* MobileDetect finds no mobile, tablet or phone, and there is a fine pointer
\* or both a large screen and hover
ConfirmedDesktop(d) ==
  /\ d.ua = "desktop"
  /\ d.pointerFine \/ (d.hover /\ (d.width.inner > 1024 \/ d.width.screen > 1024))

\* the step is one of checkAccess of run h
CheckAccessStep(h) == last'.who = {h} /\ last'.op \in {"effect", "checkAccess"}

\* C14: a step of the hook calls reportDesktopAccess only when the environment
\* is not development, the page is not framed, the initial check's
\* checkIfBanned found no ban, the client's IP is not exempt and the device is
\* a confirmed desktop; that step does not redirect, and checkAccess redirects
\* afterwards only in the step in which the report settles.  A device that
\* MobileDetect classifies as mobile, tablet or phone is never reported.
C14_ReportOnlyConfirmedDesktop ==
  [][\A h \in Runs :
       /\ (CheckAccessStep(h) /\ "reportDesktopAccess" \in last'.calls) =>
            /\ ~isDevelopment(env.host)
            /\ ~framed
            /\ last'.res = "clear"
            /\ ~isIpExempted(env.clientIp)
            /\ ConfirmedDesktop(env.device)
            /\ "redirectToBlankPage" \notin last'.calls
            /\ page' = "app"
            /\ rptPc'[h] = "await"
       /\ (CheckAccessStep(h) /\ caPc[h] = "reportDesktopAccess"
             /\ "redirectToBlankPage" \in last'.calls) =>
            rptPc[h] = "await" /\ rptPc'[h] = "idle"
       /\ (last'.who = {h} /\ env.device.ua # "desktop") =>
            "reportDesktopAccess" \notin last'.calls]_vars

\* two uses of the hook in one browser profile, in production, outside a
\* frame, with a client IP that is not exempt, on a desktop and on a phone
ConcInit ==
  /\ ProtStart([host : ProdHosts, clientIp : PlainIPs,
                device : { d \in SomeDevices : d.pointerFine }],
               {FALSE}, {FALSE}, Hooks)
  /\ VehIdle /\ PcIdle /\ MoreIdle
\* the hooks of one document, in components that stay mounted; the backend
\* answers their reports also after the document went blank
ConcNext == MountedNext \/ \E c \in Callers : ReportUnheard(c)
ConcSpec == ConcInit /\ [][ConcNext]_vars

\* reportDesktopAccess has stored a device id and the local ban
ReportStored == localStorage[BANNED_DEVICE_KEY] # NoDevice /\ isLocallyBanned(Stores)

\* C15: once reportDesktopAccess has stored a device id and the local ban, no
\* later step of a hook (a mount, a concurrent mount, a periodic check) calls
\* reportDesktopAccess, the value stored under sp_device_id is never replaced,
\* and the backend holds at most one device id of the device.
C15_ReportedAtMostOnce ==
  /\ [][ReportStored =>
          /\ "reportDesktopAccess" \notin last'.calls
          /\ localStorage'[BANNED_DEVICE_KEY] = localStorage[BANNED_DEVICE_KEY]]_vars
  /\ [](Cardinality(srvDevBanned) <= 1)

\* hook h mounts in the step and its effect goes on to the initial check
InitialCheckBegins(h) ==
  /\ last'.who = {h}
  /\ mount[h] = "unmounted"
  /\ mount'[h] = "mounted"

\* C16: outside development, when the page runs inside a frame, the step of
\* the initial check sends no request, calls neither reportDesktopAccess nor
\* redirectToBlankPage nor any other operation of ipService, leaves the stores
\* alone and ends the initial check; the page is not redirected to the blank
\* page: the top window is navigated to the page's URL, unless the browser
\* refuses the navigation.
C16_FramedPageNavigatesTop ==
  [][\A h \in Hooks :
       (InitialCheckBegins(h) /\ framed /\ ~isDevelopment(env.host)) =>
         /\ last'.sent = {}
         /\ last'.calls = {}
         /\ page' \in {"top", "app"}
         /\ caPc'[h] = "done"
         /\ cibPc'[h] = "idle"
         /\ rptPc'[h] = "idle"
         /\ localStorage' = localStorage
         /\ sessionStorage' = sessionStorage
         /\ cookie' = cookie
         /\ srvIpBanned' = srvIpBanned
         /\ srvDevBanned' = srvDevBanned]_vars

\* C16 witness: the hook mounted in a frame on a production host and the top
\* window was navigated
C16_Witness ==
  /\ framed
  /\ ~isDevelopment(env.host)
  /\ page = "top"
  /\ last.who = {1}
  /\ mount[1] = "mounted"
  /\ caPc[1] = "done"
  /\ isConfirmedDesktop(env.device)

\* the step is a segment of the interval callback of run h
IntervalStep(h) == last'.who = {h} /\ last'.op = "intervalCheck"

\* C17: while no ban is found, a request to /api/check-ip-status of the
\* periodic checker that follows an earlier one of the tab session is made
\* exactly 5 ticks (60 seconds) after it, and a callback that finds a stored
\* device id checks it on every tick.
C17_IpCheckedEveryFiveTicks ==
  [][\A h \in Runs :
       /\ (IntervalStep(h) /\ "check-ip-status" \in last'.sent /\ ipCheckAge < AgeCap) =>
            ipCheckAge \div TickMs = 5
       /\ (IntervalStep(h) /\ cbPc[h] = "due" /\ ~isLocallyBanned(Stores)
             /\ localStorage[BANNED_DEVICE_KEY] # NoDevice) =>
            "check-device" \in last'.sent]_vars

(***************************************************************************)
(* Specification and properties of the Municipios funnel                   *)
(***************************************************************************)
\* the visitor arrives with or without the data of the earlier pages, for the
\* static data and for cities of the API
MunInit ==
  /\ ProtIdle /\ VehIdle /\ PcIdle /\ DcIdle /\ NmIdle /\ HomeIdle /\ HashIdle
  /\ MunStart({"/municipios"}, {"absent", "json", "invalid"}, Ceps \cup {NoCep},
              {Null, "saved"}, {Null, "BR", "CL"}, {Null, "7500000"})
MunSpec == MunInit /\ [][MunNext]_vars

\* C18: the page navigates to '/recebedor' only from the open start-date
\* modal with a date selected and stored under 'start_date', with
\* candidato_data_completo written and the loading modal closed; the
\* start-date modal is opened only by the completion of the loading modal,
\* the loading modal only by a handleSubmit that accepted a non-empty selection
\* and wrote candidato_data_completo, a date is selected only in the open
\* start-date modal; handleStartDateContinue closes the modal exactly when it
\* navigates, and with no date selected it does not navigate.
C18_FunnelInOrder ==
  /\ [][ /\ (location' = "/recebedor" /\ location # "/recebedor") =>
             /\ munLast'.handler = "handleStartDateContinue"
             /\ showStartDateModal
             /\ ~showLoadingModal
             /\ submitting
             /\ selectedStartDate \in StartDates
             /\ funnelStorage.start_date = selectedStartDate
             /\ funnelStorage.candidato_data_completo.written
             /\ funnelStorage.candidato_data_completo.municipios # {}
         /\ (showStartDateModal' /\ ~showStartDateModal) =>
             /\ munLast'.handler = "handleLoadingComplete"
             /\ showLoadingModal /\ ~showLoadingModal'
             /\ selectedStartDate = Null
         /\ (showLoadingModal' /\ ~showLoadingModal) =>
             /\ munLast'.handler = "handleSubmit"
             /\ submitting'
             /\ funnelStorage'.candidato_data_completo.written
             /\ funnelStorage'.candidato_data_completo.municipios # {}
             /\ funnelStorage'.candidato_data_completo.municipios =
                  IF nearbyMunicipalities # {} THEN selectedMunicipios
                  ELSE { n \in DOMAIN municipios : municipios[n] }
         /\ (selectedStartDate' # selectedStartDate /\ selectedStartDate' # Null) =>
             /\ showStartDateModal
             /\ funnelStorage'.start_date = selectedStartDate'
         /\ munLast'.handler = "handleStartDateContinue" =>
             /\ showStartDateModal' = ~handleStartDateContinueBody(selectedStartDate).navigate
             /\ (location' # location) = handleStartDateContinueBody(selectedStartDate).navigate
       ]_vars
  /\ [](~handleStartDateContinueBody(Null).navigate)

\* C18 witness: the page has navigated to '/recebedor'
C18_Witness ==
  /\ location = "/recebedor"
  /\ munLast.handler = "handleStartDateContinue"
  /\ funnelStorage.start_date = selectedStartDate
  /\ selectedStartDate \in StartDates
  /\ funnelStorage.candidato_data_completo.municipios = MunNames

(***************************************************************************)
(* Specification and properties of Home                                    *)
(***************************************************************************)
HomeInit == ProtIdle /\ VehIdle /\ PcIdle /\ DcIdle /\ NmIdle /\ HashIdle /\ HomeStart
HomeSpec == HomeInit /\ [][HomeNext]_vars /\ WF_vars(CepTimeout)

\* C19: Home changes the location only to '/cadastro' and only by the timer of
\* a confirmation, with cepData stored and userCheckedCep true; handleCepConfirm stores
\* cepData, sets userCheckedCep and closes the modal in a step that leaves the
\* location alone, and the navigation follows; handleCepModalClose only hides
\* the modal and leaves cepData, userCheckedCep and the location alone.
C19_CadastroAfterConfirm ==
  /\ [][/\ (homeLast' # "none" /\ location' # location) =>
            /\ location' = "/cadastro"
            /\ homeLast' = "setTimeout"
            /\ timeouts > 0
            /\ cepData \in Ceps
            /\ userCheckedCep
        /\ homeLast' = "handleCepConfirm" =>
            /\ cepData' \in Ceps
            /\ userCheckedCep'
            /\ showCepModal /\ ~showCepModal'
            /\ location' = location
            /\ timeouts' = timeouts + 1
        /\ homeLast' = "handleCepModalClose" =>
            /\ showCepModal /\ ~showCepModal'
            /\ cepData' = cepData
            /\ userCheckedCep' = userCheckedCep
            /\ location' = location
            /\ timeouts' = timeouts
      ]_vars
  /\ [](userCheckedCep => cepData \in Ceps)
  /\ (timeouts > 0 ~> location = "/cadastro")

\* C19 witness: the modal was closed without a confirmation and nothing else
\* happened
C19_Witness ==
  /\ homeLast = "handleCepModalClose"
  /\ ~showCepModal
  /\ cepData = NoCep
  /\ ~userCheckedCep
  /\ location = "/"
  /\ timeouts = 0

(***************************************************************************)
(* Specification and properties of the hash of generateDeviceId            *)
(***************************************************************************)
HashInit ==
  /\ ProtIdle /\ VehIdle /\ PcIdle /\ DcIdle /\ NmIdle /\ MunIdle /\ HomeIdle
  /\ HashStart
HashSpec == HashInit /\ [][HashNext]_vars

\* the number lies in [-2^31, 2^31 - 1]
InInt32(v) == v.hi \in (0 - 2^15)..(2^15 - 1) /\ v.lo \in 0..(2^16 - 1)

\* h * 31 + code reduced to a signed 32-bit integer
Hash31(h, code) ==
  LET lo == h.lo * 31 + code
      hi == h.hi * 31 + (lo \div 2^16)
  IN  [hi |-> ((hi + 2^15) % 2^16) - 2^15, lo |-> lo % 2^16]

\* the characters of an id between 'dev_' and the next '_'
HashPart(id) ==
  LET end == CHOOSE k \in 2..Len(id) : id[k] = "_" /\ \A j \in 2..(k - 1) : id[j] # "_"
  IN  SubSeq(id, 2, end - 1)

\* C20: the hash starts at 0 over the attributes joined with '|||', every
\* iteration takes h to h * 31 + charCode reduced to a signed 32-bit integer,
\* and h always lies in [-2^31, 2^31 - 1]; the id returned is 'dev_', the
\* hexadecimal digits of |h| without a sign, '_' and the current time in base
\* 36; two calls with the same attributes yield the same hash part.
C20_HashIs32Bit ==
  /\ [](InInt32(hash))
  /\ [][/\ (hashPc = "idle" /\ hashPc' = "loop") =>
            /\ hashStr' = join(components)
            /\ hashI' = 0
            /\ hash' = [hi |-> 0, lo |-> 0]
        /\ (hashPc = "loop" /\ hashPc' = "loop") =>
            /\ hashI' = hashI + 1
            /\ hashI' <= Len(hashStr)
            /\ hash' = Hash31(hash, charCodeAt(hashStr[hashI']))
        /\ (hashPc = "loop" /\ hashPc' = "idle") =>
            /\ hashI = Len(hashStr)
            /\ Len(deviceIds') = Len(deviceIds) + 1
            /\ LET id == deviceIds'[Len(deviceIds')]
               IN  /\ id[1] = "dev_"
                   /\ \A j \in DOMAIN HashPart(id) :
                        \E d \in 1..16 : HashPart(id)[j] = RadixDigits[d]
                   /\ HashPart(id) =
                        toString16(IF hash.hi < 0 THEN Norm(0 - hash.hi, 0 - hash.lo)
                                   ELSE hash)
                   /\ \E now \in Times :
                        id = << "dev_" >> \o HashPart(id) \o << "_" >>
                               \o NatToString(now, 36)
      ]_vars
  /\ [](\A k, l \in DOMAIN deviceIds : HashPart(deviceIds[k]) = HashPart(deviceIds[l]))

\* C20 witness: two ids were generated from a negative hash, at different times
C20_Witness ==
  /\ Len(deviceIds) = 2
  /\ hashPc = "idle"
  /\ hash.hi < 0
  /\ deviceIds[1] # deviceIds[2]
  /\ HashPart(deviceIds[1]) = HashPart(deviceIds[2])
====
